---- MODULE Spec2Model ----
(***************************************************************************)
(* Model of the test-plan repository scripts: the configuration tree       *)
(* walker (extract_files_from_config), the reference validators            *)
(* (testplan_tools.validate_config_files, validate_config.validate_files)  *)
(* and the text-level page-count reconciliation                            *)
(* (update_config_with_actual_pages).                                      *)
(*                                                                         *)
(* Python values are tagged records: IntV, StrV, NoneV, MapV, ListV.       *)
(* A Python str is a sequence of one-character strings, so startswith,     *)
(* endswith, `in`, lower, replace, int() and f-string formatting are       *)
(* computed on the characters.  A dict is an ordered sequence of           *)
(* [k, v] entries (insertion order, as yaml.safe_load builds it).          *)
(***************************************************************************)
EXTENDS Integers, Sequences, FiniteSets, TLC

VARIABLES
    pc,               \* "start", "done"; "loaded", "extracted"; "document", "fixed", "refixed"
    script,           \* the script that ran
    fix_pages,        \* args.fix_pages
    config_exists,    \* os.path.exists(args.config)
    config_file,      \* the text of the configuration file on disk
    loaded_text,      \* the text the run loaded the configuration from
    config,           \* the loaded configuration tree
    files,            \* the walker's triples
    fs,               \* the file system: path -> state of the file
    fs_checked,       \* the paths handed to os.path.exists, in order
    missing_files, invalid_files, page_mismatches,
    changes_made,     \* update_config_with_actual_pages: the change count
    writes,           \* how many times the configuration file was written
    updated,          \* update_config_with_actual_pages: the value returned
    exit_code,        \* the exit code of the run, -1 before it ends
    doc,              \* fix_config: the document record handed to process_document
    fixed,            \* fix_config: the record process_document returned
    uncaught,         \* an exception left the entry point of the script uncaught
    config_fixed,     \* fix_config: the tree written to config_fixed.yaml
    mappings,         \* the loaded device-mapping file
    results,          \* validate_mappings: the results it returned
    devices_csv       \* generate_csv_report: the rows of the device coverage CSV

vars == <<pc, script, fix_pages, config_exists, config_file, loaded_text, config, files,
          fs, fs_checked, missing_files, invalid_files, page_mismatches,
          changes_made, writes, updated, exit_code, doc, fixed, uncaught,
          config_fixed, mappings, results, devices_csv>>

\* the variables of the fix_config main and of the device-mapping scripts
report_vars == <<config_fixed, mappings, results, devices_csv>>

----------------------------------------------------------------------------
(* Bounds of the model *)

\* intermediate mapping levels below a top-level section in the generated trees
MaxDepth == 2

\* document records in a generated configuration text
MaxRecords == 2

\* version entries of a generated pcie_storage category
MaxVersions == 2

----------------------------------------------------------------------------
(* String literals, as character sequences *)

K_specs == <<"s", "p", "e", "c", "s">>
K_test_plans == <<"t", "e", "s", "t", "_", "p", "l", "a", "n", "s">>
K_spec == <<"s", "p", "e", "c">>
K_category == <<"c", "a", "t", "e", "g", "o", "r", "y">>
K_description == <<"d", "e", "s", "c", "r", "i", "p", "t", "i", "o", "n">>
K_version == <<"v", "e", "r", "s", "i", "o", "n">>
K_last_updated == <<"l", "a", "s", "t", "_", "u", "p", "d", "a", "t", "e", "d">>
K_stats == <<"s", "t", "a", "t", "s">>
K_directories == <<"d", "i", "r", "e", "c", "t", "o", "r", "i", "e", "s">>
K_file == <<"f", "i", "l", "e">>
K_pages == <<"p", "a", "g", "e", "s">>
K_path == <<"p", "a", "t", "h">>
K_usb == <<"u", "s", "b">>
K_versions == <<"v", "e", "r", "s", "i", "o", "n", "s">>
K_USB4 == <<"U", "S", "B", "4">>
K_extra == <<"e", "x", "t", "r", "a">>
S_unknown == <<"u", "n", "k", "n", "o", "w", "n">>
S_na == <<"n", "/", "a">>
S_error == <<"e", "r", "r", "o", "r">>
S_Available == <<"A", "v", "a", "i", "l", "a", "b", "l", "e">>
S_external_document == <<"e", "x", "t", "e", "r", "n", "a", "l", " ", "d", "o", "c", "u", "m", "e", "n", "t">>
S_requires_registration == <<"r", "e", "q", "u", "i", "r", "e", "s", " ", "r", "e", "g", "i", "s", "t", "r", "a", "t", "i", "o", "n">>
S_dot_pdf == <<".", "p", "d", "f">>
S_http == <<"h", "t", "t", "p">>
S_pages_colon == <<"p", "a", "g", "e", "s", ":", " ">>
S_from_open == <<" ", "(", "f", "r", "o", "m", " ">>
S_close == <<")">>
S_not_valid_pdf == <<" ", "(", "n", "o", "t", " ", "a", " ", "v", "a", "l", "i", "d", " ", "P", "D", "F", " ", "f", "i", "l", "e", ")">>
S_cannot_read == <<" ", "(", "c", "a", "n", "n", "o", "t", " ", "r", "e", "a", "d", " ", "f", "i", "l", "e", ":", " ">>
S_None == <<"N", "o", "n", "e">>
S_dot == <<".">>
S_True == <<"T", "r", "u", "e">>
S_False == <<"F", "a", "l", "s", "e">>
K_access == <<"a", "c", "c", "e", "s", "s">>
K_standard == <<"s", "t", "a", "n", "d", "a", "r", "d">>
K_organization == <<"o", "r", "g", "a", "n", "i", "z", "a", "t", "i", "o", "n">>
S_empty == <<>>
S_NA == <<"N", "/", "A">>
S_NA_external == <<"N", "/", "A", " ", "(", "e", "x", "t", "e", "r", "n", "a", "l", " ", "d", "o", "c", "u", "m", "e", "n", "t", ")">>
S_external == <<"e", "x", "t", "e", "r", "n", "a", "l">>
S_requires_registration_access == <<"r", "e", "q", "u", "i", "r", "e", "s", "_", "r", "e", "g", "i", "s", "t", "r", "a", "t", "i", "o", "n">>
S_local == <<"l", "o", "c", "a", "l">>
S_IEEE == <<"I", "E", "E", "E">>
S_RFC == <<"R", "F", "C">>
S_USB == <<"U", "S", "B">>
S_IETF == <<"I", "E", "T", "F">>
S_USB_IF == <<"U", "S", "B", "-", "I", "F">>
F_usb4 == <<"s", "p", "e", "c", "s", "/", "u", "s", "b", "4", ".", "p", "d", "f">>
F_a == <<"a", ".", "p", "d", "f">>
F_B == <<"B", ".", "P", "D", "F">>
F_b_txt == <<"b", ".", "t", "x", "t">>
F_c == <<"c", ".", "p", "d", "f">>
F_available == <<"A", "v", "a", "i", "l", "a", "b", "l", "e", " ", "f", "r", "o", "m", " ", "I", "E", "E", "E">>
F_http == <<"h", "t", "t", "p", ":", "/", "/", "x", "/", "c", ".", "p", "d", "f">>
F_registration == <<"R", "e", "q", "u", "i", "r", "e", "s", " ", "R", "e", "g", "i", "s", "t", "r", "a", "t", "i", "o", "n">>
L_NA_external == <<"N", "/", "A", " ", "(", "e", "x", "t", "e", "r", "n", "a", "l", " ", "d", "o", "c", "u", "m", "e", "n", "t", ")">>
L_NA == <<"N", "/", "A">>
L_TBD == <<"T", "B", "D">>
E_permission == <<"P", "e", "r", "m", "i", "s", "s", "i", "o", "n", " ", "d", "e", "n", "i", "e", "d">>

----------------------------------------------------------------------------
(* Python values *)

IntV(n) == [t |-> "int", i |-> n]
StrV(s) == [t |-> "str", s |-> s]
NoneV == [t |-> "none"]
BoolV(b) == [t |-> "bool", b |-> b]
\* a float with one decimal digit: whole.tenth
FloatV(whole, tenth) == [t |-> "float", w |-> whole, f |-> tenth]
MapV(items) == [t |-> "map", items |-> items]
ListV(items) == [t |-> "list", items |-> items]
Entry(key, value) == [k |-> key, v |-> value]

\* key in d
HasKey(d, key) == \E n \in 1..Len(d.items) : d.items[n].k = key

\* d[key]
Get(d, key) == d.items[CHOOSE n \in 1..Len(d.items) : d.items[n].k = key].v

\* d.get(key, default)
GetOr(d, key, default) == IF HasKey(d, key) THEN Get(d, key) ELSE default

RECURSIVE Flatten(_)
\* the concatenation of a sequence of sequences, in order
Flatten(ss) == IF ss = <<>> THEN <<>> ELSE Head(ss) \o Flatten(Tail(ss))

----------------------------------------------------------------------------
(* Python string operations *)

LowerChar(c) ==
    CASE c = "A" -> "a" [] c = "B" -> "b" [] c = "C" -> "c" [] c = "D" -> "d"
      [] c = "E" -> "e" [] c = "F" -> "f" [] c = "G" -> "g" [] c = "H" -> "h"
      [] c = "I" -> "i" [] c = "J" -> "j" [] c = "K" -> "k" [] c = "L" -> "l"
      [] c = "M" -> "m" [] c = "N" -> "n" [] c = "O" -> "o" [] c = "P" -> "p"
      [] c = "Q" -> "q" [] c = "R" -> "r" [] c = "S" -> "s" [] c = "T" -> "t"
      [] c = "U" -> "u" [] c = "V" -> "v" [] c = "W" -> "w" [] c = "X" -> "x"
      [] c = "Y" -> "y" [] c = "Z" -> "z" [] OTHER -> c

\* s.lower()
Lower(s) == [n \in 1..Len(s) |-> LowerChar(s[n])]

\* s.startswith(p)
StartsWith(s, p) == Len(p) <= Len(s) /\ SubSeq(s, 1, Len(p)) = p

\* s.endswith(p)
EndsWith(s, p) == Len(p) <= Len(s) /\ SubSeq(s, Len(s) - Len(p) + 1, Len(s)) = p

\* the positions at which p occurs in s
Occurrences(s, p) == {n \in 1..(Len(s) - Len(p) + 1) : SubSeq(s, n, n + Len(p) - 1) = p}

\* p in s
Contains(s, p) == Occurrences(s, p) # {}

DigitChars == <<"0", "1", "2", "3", "4", "5", "6", "7", "8", "9">>

IsDigit(c) == \E d \in 1..Len(DigitChars) : DigitChars[d] = c

DigitValue(c) == (CHOOSE d \in 1..Len(DigitChars) : DigitChars[d] = c) - 1

IsDigits(s) == s # <<>> /\ \A n \in 1..Len(s) : IsDigit(s[n])

RECURSIVE NatToStr(_)
NatToStr(n) ==
    IF n < 10 THEN <<DigitChars[n + 1]>>
    ELSE NatToStr(n \div 10) \o <<DigitChars[(n % 10) + 1]>>

\* str(n) for an int
IntToStr(n) == IF n < 0 THEN <<"-">> \o NatToStr(0 - n) ELSE NatToStr(n)

RECURSIVE StrToNat(_)
StrToNat(s) ==
    IF s = <<>> THEN 0
    ELSE 10 * StrToNat(SubSeq(s, 1, Len(s) - 1)) + DigitValue(s[Len(s)])

RECURSIVE Strip(_)
\* s.strip(), for blanks
Strip(s) ==
    IF s # <<>> /\ Head(s) = " " THEN Strip(Tail(s))
    ELSE IF s # <<>> /\ s[Len(s)] = " " THEN Strip(SubSeq(s, 1, Len(s) - 1))
    ELSE s

\* str(value), as an f-string formats it
PyStr(value) ==
    IF value.t = "int" THEN IntToStr(value.i)
    ELSE IF value.t = "str" THEN value.s
    ELSE IF value.t = "float" THEN IntToStr(value.w) \o S_dot \o NatToStr(value.f)
    ELSE IF value.t = "bool" THEN (IF value.b THEN S_True ELSE S_False)
    ELSE S_None

\* int(value): ok is FALSE where Python raises ValueError or TypeError
PyInt(value) ==
    IF value.t = "int" THEN [ok |-> TRUE, i |-> value.i]
    ELSE IF value.t = "str"
    THEN LET body == Strip(value.s)
             signed == body # <<>> /\ Head(body) \in {"-", "+"}
             digits == IF signed THEN Tail(body) ELSE body
         IN  IF IsDigits(digits)
             THEN [ok |-> TRUE,
                   i |-> IF signed /\ Head(body) = "-"
                         THEN 0 - StrToNat(digits) ELSE StrToNat(digits)]
             ELSE [ok |-> FALSE, i |-> 0]
    ELSE [ok |-> FALSE, i |-> 0]

RECURSIVE replace_from(_, _, _)
\* the scan of str.replace: leftmost occurrences, left to right, not overlapping
replace_from(s, old, new) ==
    IF Len(s) < Len(old) THEN s
    ELSE IF SubSeq(s, 1, Len(old)) = old
    THEN new \o replace_from(SubSeq(s, Len(old) + 1, Len(s)), old, new)
    ELSE <<Head(s)>> \o replace_from(Tail(s), old, new)

\* mutant: only the first occurrence is replaced
str_replace_first(s, old, new) ==
    IF Occurrences(s, old) = {} THEN s
    ELSE LET n == CHOOSE o \in Occurrences(s, old) : \A m \in Occurrences(s, old) : o <= m
         IN  SubSeq(s, 1, n - 1) \o new \o SubSeq(s, n + Len(old), Len(s))

\* s.replace(old, new), old not empty
str_replace(s, old, new) == replace_from(s, old, new)

----------------------------------------------------------------------------
(* The configuration tree walker *)

\* top-level keys the walker does not visit
ExcludedSections == {K_version, K_last_updated, K_description, K_stats, K_directories}

\* keys of a mapping the recursion does not descend into
SkipKeys == {K_specs, K_test_plans, K_spec, K_category, K_description}

\* `for spec in value`: the elements of a list, the keys of a dict, the
\* characters of a str
Iterate(value) ==
    IF value.t = "list" THEN value.items
    ELSE IF value.t = "map" THEN [n \in 1..Len(value.items) |-> StrV(value.items[n].k)]
    ELSE IF value.t = "str" THEN [n \in 1..Len(value.s) |-> StrV(<<value.s[n]>>)]
    ELSE <<>>

\* mutant: the list key is appended after the subsection keys
doc_list_key_last(section_data, key, section_name, subsection) ==
    IF HasKey(section_data, key) /\ Get(section_data, key).t # "none"
    THEN LET lst == Iterate(Get(section_data, key))
             category == section_name \o subsection \o S_dot \o key
         IN  Flatten([n \in 1..Len(lst) |->
                 IF lst[n].t = "map" /\ HasKey(lst[n], K_file)
                 THEN <<[file |-> Get(lst[n], K_file),
                         pages |-> GetOr(lst[n], K_pages, StrV(S_unknown)),
                         category |-> category]>>
                 ELSE <<>>])
    ELSE <<>>

\* mutant: the subsection keys are left out of the label
doc_list_no_subsection(section_data, key, section_name, subsection) ==
    IF HasKey(section_data, key) /\ Get(section_data, key).t # "none"
    THEN LET lst == Iterate(Get(section_data, key))
             category == section_name \o S_dot \o key
         IN  Flatten([n \in 1..Len(lst) |->
                 IF lst[n].t = "map" /\ HasKey(lst[n], K_file)
                 THEN <<[file |-> Get(lst[n], K_file),
                         pages |-> GetOr(lst[n], K_pages, StrV(S_unknown)),
                         category |-> category]>>
                 ELSE <<>>])
    ELSE <<>>

\* mutant: an entry without a `file` key is emitted with the reference "unknown"
doc_list_file_default(section_data, key, section_name, subsection) ==
    IF HasKey(section_data, key) /\ Get(section_data, key).t # "none"
    THEN LET lst == Iterate(Get(section_data, key))
             category == section_name \o S_dot \o key \o subsection
         IN  Flatten([n \in 1..Len(lst) |->
                 IF lst[n].t = "map"
                 THEN <<[file |-> GetOr(lst[n], K_file, StrV(S_unknown)),
                         pages |-> GetOr(lst[n], K_pages, StrV(S_unknown)),
                         category |-> category]>>
                 ELSE <<>>])
    ELSE <<>>

\* mutant: a record without a `pages` key is emitted with None
doc_list_pages_none(section_data, key, section_name, subsection) ==
    IF HasKey(section_data, key) /\ Get(section_data, key).t # "none"
    THEN LET lst == Iterate(Get(section_data, key))
             category == section_name \o S_dot \o key \o subsection
         IN  Flatten([n \in 1..Len(lst) |->
                 IF lst[n].t = "map" /\ HasKey(lst[n], K_file)
                 THEN <<[file |-> Get(lst[n], K_file),
                         pages |-> GetOr(lst[n], K_pages, NoneV),
                         category |-> category]>>
                 ELSE <<>>])
    ELSE <<>>

\* the triples one of the three list keys of a mapping contributes
doc_list(section_data, key, section_name, subsection) ==
    IF HasKey(section_data, key) /\ Get(section_data, key).t # "none"
    THEN LET lst == Iterate(Get(section_data, key))
             category == section_name \o S_dot \o key \o subsection
         IN  Flatten([n \in 1..Len(lst) |->
                 IF lst[n].t = "map" /\ HasKey(lst[n], K_file)
                 THEN <<[file |-> Get(lst[n], K_file),
                         pages |-> GetOr(lst[n], K_pages, StrV(S_unknown)),
                         category |-> category]>>
                 ELSE <<>>])
    ELSE <<>>

RECURSIVE process_section(_, _, _)

\* mutant: the other keys of a mapping are walked before its three list keys
process_section_children_first(section_data, section_name, subsection) ==
    IF section_data.t = "map"
    THEN Flatten([n \in 1..Len(section_data.items) |->
                IF section_data.items[n].k \notin SkipKeys
                THEN process_section(section_data.items[n].v, section_name,
                                     subsection \o S_dot \o section_data.items[n].k)
                ELSE <<>>])
         \o doc_list(section_data, K_specs, section_name, subsection)
         \o doc_list(section_data, K_test_plans, section_name, subsection)
         \o doc_list(section_data, K_spec, section_name, subsection)
    ELSE IF section_data.t = "list"
    THEN Flatten([n \in 1..Len(section_data.items) |->
                process_section(section_data.items[n], section_name, subsection)])
    ELSE <<>>

process_section(section_data, section_name, subsection) ==
    IF section_data.t = "map"
    THEN doc_list(section_data, K_specs, section_name, subsection)
         \o doc_list(section_data, K_test_plans, section_name, subsection)
         \o doc_list(section_data, K_spec, section_name, subsection)
         \o Flatten([n \in 1..Len(section_data.items) |->
                IF section_data.items[n].k \notin SkipKeys
                THEN process_section(section_data.items[n].v, section_name,
                                     subsection \o S_dot \o section_data.items[n].k)
                ELSE <<>>])
    ELSE IF section_data.t = "list"
    THEN Flatten([n \in 1..Len(section_data.items) |->
                process_section(section_data.items[n], section_name, subsection)])
    ELSE <<>>

\* mutant: the bookkeeping sections are walked too
extract_files_all_sections(cfg) ==
    Flatten([n \in 1..Len(cfg.items) |->
        process_section(cfg.items[n].v, cfg.items[n].k, <<>>)])

extract_files_from_config(cfg) ==
    Flatten([n \in 1..Len(cfg.items) |->
        IF cfg.items[n].k \notin ExcludedSections
        THEN process_section(cfg.items[n].v, cfg.items[n].k, <<>>)
        ELSE <<>>])

----------------------------------------------------------------------------
(* The file system and the page-count capability *)

\* os.path.exists(path)
path_exists(fsys, path) == path \in DOMAIN fsys /\ fsys[path].exists

\* get_pdf_page_count(file_path): the count the PDF library or pdfinfo
\* reports, None when neither can tell
get_pdf_page_count(fsys, path) == fsys[path].pages

----------------------------------------------------------------------------
(* The reference validators *)

\* testplan_tools: the external-document rule
is_external(t) ==
    /\ t.file.t = "str"
    /\ \/ StartsWith(t.file.s, S_Available)
       \/ Contains(PyStr(t.pages), S_external_document)
       \/ Contains(Lower(t.file.s), S_requires_registration)

\* the declared pages is a download-error or unknown sentinel
is_unknown_sentinel(pages) ==
    /\ pages.t = "str"
    /\ \/ Contains(Lower(pages.s), S_error)
       \/ Lower(pages.s) \in {S_unknown, S_na}

\* mutant: the unknown / error sentinel is looked at before the signature
classify_local_sentinel_first(fsys, t) ==
    IF ~path_exists(fsys, t.file.s) THEN "missing"
    ELSE IF ~EndsWith(Lower(t.file.s), S_dot_pdf) THEN "non_pdf"
    ELSE IF is_unknown_sentinel(t.pages) THEN "unknown_expected"
    ELSE IF ~fsys[t.file.s].readable THEN "invalid_read"
    ELSE IF ~fsys[t.file.s].header_ok THEN "invalid_header"
    ELSE IF get_pdf_page_count(fsys, t.file.s).t = "none" THEN "undeterminable"
    ELSE IF ~PyInt(t.pages).ok THEN "unparseable"
    ELSE IF get_pdf_page_count(fsys, t.file.s).i # PyInt(t.pages).i THEN "mismatch"
    ELSE "valid"

\* the checks both validators share, from the existence check on, first match wins
classify_local(fsys, t) ==
    IF ~path_exists(fsys, t.file.s) THEN "missing"
    ELSE IF ~EndsWith(Lower(t.file.s), S_dot_pdf) THEN "non_pdf"
    ELSE IF ~fsys[t.file.s].readable THEN "invalid_read"
    ELSE IF ~fsys[t.file.s].header_ok THEN "invalid_header"
    ELSE IF is_unknown_sentinel(t.pages) THEN "unknown_expected"
    ELSE IF get_pdf_page_count(fsys, t.file.s).t = "none" THEN "undeterminable"
    ELSE IF ~PyInt(t.pages).ok THEN "unparseable"
    ELSE IF get_pdf_page_count(fsys, t.file.s).i # PyInt(t.pages).i THEN "mismatch"
    ELSE "valid"

\* the outcome of one iteration of testplan_tools.validate_config_files
tt_classify(fsys, t) == IF is_external(t) THEN "external" ELSE classify_local(fsys, t)

\* the outcome of one iteration of validate_config.validate_files
vc_classify(fsys, t) == classify_local(fsys, t)

missing_entry(t) == t.file.s \o S_from_open \o t.category \o S_close

invalid_entry(fsys, t, class) ==
    IF class = "invalid_header" THEN t.file.s \o S_not_valid_pdf
    ELSE t.file.s \o S_cannot_read \o fsys[t.file.s].error \o S_close

\* mutant: the parsed integer is recorded instead of the declared value
mismatch_entry_parsed(fsys, t) ==
    [file_path |-> t.file.s,
     actual_pages |-> get_pdf_page_count(fsys, t.file.s).i,
     expected_pages |-> IntV(PyInt(t.pages).i)]

mismatch_entry(fsys, t) ==
    [file_path |-> t.file.s,
     actual_pages |-> get_pdf_page_count(fsys, t.file.s).i,
     expected_pages |-> t.pages]

\* the three result lists, and the paths handed to os.path.exists, in loop order
validation_lists(fsys, fl, class) ==
    [missing_files |->
        Flatten([n \in 1..Len(fl) |->
            IF class[n] = "missing" THEN <<missing_entry(fl[n])>> ELSE <<>>]),
     invalid_files |->
        Flatten([n \in 1..Len(fl) |->
            IF class[n] \in {"invalid_header", "invalid_read"}
            THEN <<invalid_entry(fsys, fl[n], class[n])>> ELSE <<>>]),
     page_mismatches |->
        Flatten([n \in 1..Len(fl) |->
            IF class[n] = "mismatch" THEN <<mismatch_entry(fsys, fl[n])>> ELSE <<>>]),
     fs_checked |->
        Flatten([n \in 1..Len(fl) |->
            IF class[n] = "external" THEN <<>> ELSE <<fl[n].file.s>>])]

validate_config_files(fsys, fl) ==
    validation_lists(fsys, fl, [n \in 1..Len(fl) |-> tt_classify(fsys, fl[n])])

validate_files(fsys, fl) ==
    validation_lists(fsys, fl, [n \in 1..Len(fl) |-> vc_classify(fsys, fl[n])])

\* mutant: page-count mismatches are not counted as issues
print_results_ignoring_mismatches(res) ==
    Len(res.missing_files) + Len(res.invalid_files) = 0

\* print_config_results / print_results: True when no issue was found
print_config_results(res) ==
    Len(res.missing_files) + Len(res.invalid_files) + Len(res.page_mismatches) = 0

----------------------------------------------------------------------------
(* Page-count reconciliation *)

old_pattern(m) == S_pages_colon \o PyStr(m.expected_pages)
new_pattern(m) == S_pages_colon \o IntToStr(m.actual_pages)

RECURSIVE update_loop(_, _, _)
\* the loop over the mismatches: the text and the change count it ends with
update_loop(text, mismatches, changes) ==
    IF mismatches = <<>> THEN [content |-> text, changes_made |-> changes]
    ELSE IF Contains(text, old_pattern(Head(mismatches)))
    THEN update_loop(str_replace(text, old_pattern(Head(mismatches)),
                                 new_pattern(Head(mismatches))),
                     Tail(mismatches), changes + 1)
    ELSE update_loop(text, Tail(mismatches), changes)

\* mutant: every mismatch is counted as a change, found or not
update_config_counting_all(text, mismatches) ==
    IF mismatches = <<>>
    THEN [content |-> text, changes_made |-> 0, written |-> FALSE, result |-> FALSE]
    ELSE [content |-> update_loop(text, mismatches, 0).content,
          changes_made |-> Len(mismatches), written |-> TRUE, result |-> TRUE]

\* the text left on disk, the change count, whether the file was written and
\* the value returned
update_config_with_actual_pages(text, mismatches) ==
    IF mismatches = <<>>
    THEN [content |-> text, changes_made |-> 0, written |-> FALSE, result |-> FALSE]
    ELSE LET done == update_loop(text, mismatches, 0)
         IN  IF done.changes_made > 0
             THEN [content |-> done.content, changes_made |-> done.changes_made,
                   written |-> TRUE, result |-> TRUE]
             ELSE [content |-> text, changes_made |-> 0,
                   written |-> FALSE, result |-> FALSE]

----------------------------------------------------------------------------
(* fix_config: normalization of a document record *)

\* bool(value)
Truthy(value) ==
    IF value.t = "int" THEN value.i # 0
    ELSE IF value.t = "str" THEN value.s # <<>>
    ELSE IF value.t = "float" THEN value.w # 0 \/ value.f # 0
    ELSE IF value.t = "bool" THEN value.b
    ELSE IF value.t \in {"map", "list"} THEN value.items # <<>>
    ELSE FALSE

\* doc[key] = value: the entry is replaced in place, a new key goes last
SetItem(d, key, value) ==
    IF HasKey(d, key)
    THEN MapV([n \in 1..Len(d.items) |->
                 IF d.items[n].k = key THEN Entry(key, value) ELSE d.items[n]])
    ELSE MapV(Append(d.items, Entry(key, value)))

\* mutant: the long N/A form is first shortened to "N/A"
fix_pages_field_na_step(value) ==
    IF value.t \in {"int", "bool"} THEN value
    ELSE IF value.t = "str"
    THEN IF value.s = S_NA_external THEN StrV(S_NA)
         ELSE IF value.s = S_NA THEN NoneV
         ELSE IF PyInt(value).ok THEN IntV(PyInt(value).i)
         ELSE NoneV
    ELSE NoneV

\* isinstance(value, int) holds for an int and for a bool
fix_pages_field(value) ==
    IF value.t \in {"int", "bool"} THEN value
    ELSE IF value.t = "str"
    THEN IF value.s \in {S_NA, S_NA_external} THEN NoneV
         ELSE IF PyInt(value).ok THEN IntV(PyInt(value).i)
         ELSE NoneV
    ELSE NoneV

fix_version_field(value) ==
    IF value.t = "str" /\ value.s \in {S_NA, S_na, S_empty} THEN NoneV
    ELSE IF Truthy(value) THEN StrV(PyStr(value))
    ELSE NoneV

determine_access(item) ==
    LET file_val == GetOr(item, K_file, StrV(S_empty))
    IN  IF file_val.t = "str" /\ StartsWith(file_val.s, S_Available) THEN S_external
        ELSE IF file_val.t = "str" /\ Contains(Lower(file_val.s), S_requires_registration)
        THEN S_requires_registration_access
        ELSE IF file_val.t = "str" /\ StartsWith(file_val.s, S_http) THEN S_external
        ELSE S_local

\* the four steps of process_document
fix_pages_step(d) ==
    IF HasKey(d, K_pages) THEN SetItem(d, K_pages, fix_pages_field(Get(d, K_pages))) ELSE d

fix_version_step(d) ==
    IF HasKey(d, K_version) THEN SetItem(d, K_version, fix_version_field(Get(d, K_version)))
    ELSE d

\* mutant: the access value is synthesized also when the record has one
add_access_always(d) == SetItem(d, K_access, StrV(determine_access(d)))

add_access_step(d) ==
    IF ~HasKey(d, K_access) THEN SetItem(d, K_access, StrV(determine_access(d))) ELSE d

add_organization_step(d) ==
    IF HasKey(d, K_standard) /\ ~HasKey(d, K_organization)
    THEN LET std == Get(d, K_standard).s
         IN  IF StartsWith(std, S_IEEE) THEN SetItem(d, K_organization, StrV(S_IEEE))
             ELSE IF StartsWith(std, S_RFC) THEN SetItem(d, K_organization, StrV(S_IETF))
             ELSE IF StartsWith(std, S_USB) THEN SetItem(d, K_organization, StrV(S_USB_IF))
             ELSE d
    ELSE d

process_document(d) ==
    add_organization_step(add_access_step(fix_version_step(fix_pages_step(d))))

----------------------------------------------------------------------------
(* fix_config: categories, the renaming and the split of pcie_storage *)

K_fips_security == <<"f", "i", "p", "s", "_", "s", "e", "c", "u", "r", "i", "t", "y">>
K_security_certifications == <<"s", "e", "c", "u", "r", "i", "t", "y", "_", "c", "e", "r", "t", "i", "f", "i", "c", "a", "t", "i", "o", "n", "s">>
K_pcie_storage == <<"p", "c", "i", "e", "_", "s", "t", "o", "r", "a", "g", "e">>
K_pcie == <<"p", "c", "i", "e">>
K_ufs == <<"u", "f", "s">>
S_Gen == <<"G", "e", "n">>
S_PCIe == <<"P", "C", "I", "e">>
S_UFS == <<"U", "F", "S">>
S_connectivity == <<"c", "o", "n", "n", "e", "c", "t", "i", "v", "i", "t", "y">>
S_storage == <<"s", "t", "o", "r", "a", "g", "e">>
S_security_description == <<"S", "e", "c", "u", "r", "i", "t", "y", " ", "c", "e", "r", "t", "i", "f", "i", "c", "a", "t", "i", "o", "n", " ", "t", "e", "s", "t", " ", "s", "p", "e", "c", "i", "f", "i", "c", "a", "t", "i", "o", "n", "s">>
S_pcie_description == <<"P", "C", "I", "e", " ", "i", "n", "t", "e", "r", "f", "a", "c", "e", " ", "t", "e", "s", "t", " ", "s", "p", "e", "c", "i", "f", "i", "c", "a", "t", "i", "o", "n", "s">>
S_ufs_description == <<"U", "n", "i", "v", "e", "r", "s", "a", "l", " ", "F", "l", "a", "s", "h", " ", "S", "t", "o", "r", "a", "g", "e", " ", "i", "n", "t", "e", "r", "f", "a", "c", "e", " ", "t", "e", "s", "t", " ", "s", "p", "e", "c", "i", "f", "i", "c", "a", "t", "i", "o", "n", "s">>

categories_to_process ==
    { <<"e", "t", "h", "e", "r", "n", "e", "t">>,
      <<"s", "w", "i", "t", "c", "h", "i", "n", "g">>,
      <<"f", "i", "b", "r", "e", "_", "c", "h", "a", "n", "n", "e", "l">>,
      <<"i", "e", "e", "e", "1", "5", "8", "8">>,
      <<"i", "p", "v", "6">>,
      <<"i", "s", "c", "s", "i">>,
      <<"s", "t", "o", "r", "a", "g", "e">>,
      <<"u", "s", "b">>,
      <<"w", "i", "f", "i">>,
      <<"l", "o", "r", "a", "w", "a", "n">>,
      <<"o", "n", "v", "i", "f">>,
      <<"s", "d", "n">>,
      <<"r", "e", "d", "f", "i", "s", "h">>,
      <<"a", "u", "t", "h">>,
      <<"r", "d", "m", "a">>,
      <<"n", "v", "m", "e">>,
      <<"e", "t", "h", "e", "r", "n", "e", "t", "_", "p", "o", "e">>,
      <<"a", "u", "t", "o", "m", "o", "t", "i", "v", "e", "_", "e", "t", "h", "e", "r", "n", "e", "t">>,
      <<"k", "h", "r", "o", "n", "o", "s">>,
      <<"f", "i", "p", "s", "_", "s", "e", "c", "u", "r", "i", "t", "y">>,
      <<"i", "p", "v", "6", "_", "r", "e", "a", "d", "y">>,
      <<"p", "c", "i", "e", "_", "s", "t", "o", "r", "a", "g", "e">> }

\* d.pop(key): the mapping without the key
DelItem(d, key) == MapV(SelectSeq(d.items, LAMBDA e : e.k # key))

\* d[key] = [process_document(doc) for doc in d[key]] when the key is there
process_documents(d, key) ==
    IF HasKey(d, key)
    THEN SetItem(d, key,
             ListV([n \in 1..Len(Get(d, key).items) |->
                       process_document(Get(d, key).items[n])]))
    ELSE d

\* the mappings one level below a version: their specs and test_plans lists
process_nested(version_data) ==
    MapV([n \in 1..Len(version_data.items) |->
            LET e == version_data.items[n]
            IN  IF e.k \notin {K_specs, K_test_plans} /\ e.v.t = "map"
                THEN Entry(e.k, process_documents(process_documents(e.v, K_specs),
                                                  K_test_plans))
                ELSE e])

process_version(version_data) ==
    process_nested(process_documents(process_documents(version_data, K_specs),
                                     K_test_plans))

process_category(category_data) ==
    IF HasKey(category_data, K_versions)
    THEN SetItem(category_data, K_versions,
             MapV([n \in 1..Len(Get(category_data, K_versions).items) |->
                     Entry(Get(category_data, K_versions).items[n].k,
                           process_version(Get(category_data, K_versions).items[n].v))]))
    ELSE category_data

\* the loop over categories_to_process
process_categories(cfg) ==
    MapV([n \in 1..Len(cfg.items) |->
            IF cfg.items[n].k \in categories_to_process
            THEN Entry(cfg.items[n].k, process_category(cfg.items[n].v))
            ELSE cfg.items[n]])

rename_fips_security(cfg) ==
    IF HasKey(cfg, K_fips_security)
    THEN SetItem(DelItem(cfg, K_fips_security), K_security_certifications,
                 SetItem(Get(cfg, K_fips_security), K_description,
                         StrV(S_security_description)))
    ELSE cfg

new_category(category, description) ==
    MapV(<<Entry(K_category, StrV(category)), Entry(K_description, StrV(description)),
           Entry(K_versions, MapV(<<>>))>>)

\* mutant: the UFS test comes first
goes_to_ufs_first(version_key) == Contains(version_key, S_UFS)

goes_to_pcie(version_key) == Contains(version_key, S_Gen) \/ Contains(version_key, S_PCIe)

goes_to_ufs(version_key) == ~goes_to_pcie(version_key) /\ Contains(version_key, S_UFS)

\* the version entries of pcie_data that go to the category `target` (pcie or
\* ufs), in their order
selected_versions(pcie_data, target) ==
    IF HasKey(pcie_data, K_versions)
    THEN MapV(SelectSeq(Get(pcie_data, K_versions).items,
                        LAMBDA e : IF target = K_pcie THEN goes_to_pcie(e.k)
                                   ELSE goes_to_ufs(e.k)))
    ELSE MapV(<<>>)

split_pcie_storage(cfg) ==
    IF HasKey(cfg, K_pcie_storage)
    THEN LET pcie_data == Get(cfg, K_pcie_storage)
             rest == DelItem(cfg, K_pcie_storage)
             pcie == SetItem(new_category(S_connectivity, S_pcie_description), K_versions,
                             selected_versions(pcie_data, K_pcie))
             ufs == SetItem(new_category(S_storage, S_ufs_description), K_versions,
                            selected_versions(pcie_data, K_ufs))
         IN  SetItem(SetItem(rest, K_pcie, pcie), K_ufs, ufs)
    ELSE cfg

\* the tree main() hands to yaml.dump
fix_config_main(cfg) == split_pcie_storage(rename_fips_security(process_categories(cfg)))

----------------------------------------------------------------------------
(* validate_mappings and generate_report: the device-mapping file *)

K_devices == <<"d", "e", "v", "i", "c", "e", "s">>
K_id == <<"i", "d">>
K_name == <<"n", "a", "m", "e">>
K_type == <<"t", "y", "p", "e">>
S_dot_txt == <<".", "t", "x", "t">>

\* the code points of the characters of the generated paths, ascending
AsciiOrder ==
    <<"-", ".", "/", "a", "b", "c", "d", "e", "f", "g", "h", "i", "j", "k", "l", "m",
      "n", "o", "p", "q", "r", "s", "t", "u", "v", "w", "x", "y", "z">>

RECURSIVE StrLess(_, _)
\* a < b for two str
StrLess(a, b) ==
    IF b = <<>> THEN FALSE
    ELSE IF a = <<>> THEN TRUE
    ELSE IF Head(a) = Head(b) THEN StrLess(Tail(a), Tail(b))
    ELSE (CHOOSE n \in 1..Len(AsciiOrder) : AsciiOrder[n] = Head(a))
         < (CHOOSE n \in 1..Len(AsciiOrder) : AsciiOrder[n] = Head(b))

\* device.get(key, []): the elements of the list
device_list(device, key) == GetOr(device, key, ListV(<<>>)).items

device_id(device) == GetOr(device, K_id, StrV(S_unknown))

\* spec.get("path", "")
entry_path(entry) == GetOr(entry, K_path, StrV(S_empty))

\* what the loop body does with one specs / test_plans entry
entry_outcome(fsys, entry) ==
    IF ~Truthy(entry_path(entry)) THEN "error"
    ELSE IF ~path_exists(fsys, entry_path(entry).s) THEN "missing"
    ELSE "ok"

\* mutant: the test plans of a device are not looked at
device_valid_specs_only(fsys, device) ==
    \A n \in 1..Len(device_list(device, K_specs)) :
       entry_outcome(fsys, device_list(device, K_specs)[n]) = "ok"

\* device_valid at the end of the loop body
device_valid(fsys, device) ==
    /\ \A n \in 1..Len(device_list(device, K_specs)) :
          entry_outcome(fsys, device_list(device, K_specs)[n]) = "ok"
    /\ \A n \in 1..Len(device_list(device, K_test_plans)) :
          entry_outcome(fsys, device_list(device, K_test_plans)[n]) = "ok"

\* the entries of all devices under `key` with the given outcome, each with
\* the device it belongs to, in loop order
entries_with(fsys, data, key, outcome) ==
    LET devices == device_list(data, K_devices)
    IN  Flatten([d \in 1..Len(devices) |->
            Flatten([n \in 1..Len(device_list(devices[d], key)) |->
                IF entry_outcome(fsys, device_list(devices[d], key)[n]) = outcome
                THEN <<[device |-> devices[d], entry |-> device_list(devices[d], key)[n]]>>
                ELSE <<>>])])

\* the *.pdf and *.txt files below `directory` that are not mapped, sorted by
\* path; size_mb is round(st_size / (1024*1024), 2) in hundredths of a megabyte
find_orphaned_files(fsys, directory, mapped_files) ==
    LET found == {path \in DOMAIN fsys :
                     /\ fsys[path].exists
                     /\ StartsWith(path, directory \o <<"/">>)
                     /\ EndsWith(path, S_dot_pdf) \/ EndsWith(path, S_dot_txt)
                     /\ path \notin mapped_files}
        place(path) == 1 + Cardinality({q \in found : StrLess(q, path)})
    IN  [n \in 1..Cardinality(found) |->
            LET path == CHOOSE q \in found : place(q) = n
            IN  [path |-> path,
                 size_mb |-> (fsys[path].size * 100 + 524288) \div 1048576]]

\* the paths added to mapped_specs / mapped_tests
mapped_files(fsys, data, key) ==
    {entry_path(x.entry).s : x \in {entries_with(fsys, data, key, "missing")[n] :
                                n \in 1..Len(entries_with(fsys, data, key, "missing"))}
                             \cup {entries_with(fsys, data, key, "ok")[n] :
                                n \in 1..Len(entries_with(fsys, data, key, "ok"))}}

\* f"Device {device_id}: spec missing path" / "... test plan missing path"
missing_path_error(id, key) ==
    <<"D", "e", "v", "i", "c", "e", " ">> \o PyStr(id)
    \o (IF key = K_specs
        THEN <<":", " ", "s", "p", "e", "c", " ", "m", "i", "s", "s", "i", "n", "g", " ", "p", "a", "t", "h">>
        ELSE <<":", " ", "t", "e", "s", "t", " ", "p", "l", "a", "n", " ", "m", "i", "s", "s", "i", "n", "g", " ", "p", "a", "t", "h">>)

\* the error messages, in the order they are appended: per device those of
\* its specs, then those of its test plans
mapping_errors(fsys, data) ==
    LET devices == device_list(data, K_devices)
        in_list(device, key) ==
            Flatten([n \in 1..Len(device_list(device, key)) |->
                IF entry_outcome(fsys, device_list(device, key)[n]) = "error"
                THEN <<missing_path_error(device_id(device), key)>> ELSE <<>>])
    IN  Flatten([d \in 1..Len(devices) |->
            in_list(devices[d], K_specs) \o in_list(devices[d], K_test_plans)])

validate_mappings(fsys, data) ==
    LET devices == device_list(data, K_devices)
        missing_specs == entries_with(fsys, data, K_specs, "missing")
        missing_tests == entries_with(fsys, data, K_test_plans, "missing")
    IN  [valid_devices |->
            Flatten([d \in 1..Len(devices) |->
                IF device_valid(fsys, devices[d])
                THEN <<[id |-> device_id(devices[d]),
                        name |-> GetOr(devices[d], K_name, StrV(S_empty)),
                        category |-> GetOr(devices[d], K_category, StrV(S_empty)),
                        spec_count |-> Len(device_list(devices[d], K_specs)),
                        test_count |-> Len(device_list(devices[d], K_test_plans))]>>
                ELSE <<>>]),
         missing_specs |->
            [n \in 1..Len(missing_specs) |->
                [device |-> device_id(missing_specs[n].device),
                 path |-> entry_path(missing_specs[n].entry).s,
                 standard |-> GetOr(missing_specs[n].entry, K_standard, StrV(S_unknown))]],
         missing_tests |->
            [n \in 1..Len(missing_tests) |->
                [device |-> device_id(missing_tests[n].device),
                 path |-> entry_path(missing_tests[n].entry).s,
                 type |-> GetOr(missing_tests[n].entry, K_type, StrV(S_unknown))]],
         errors |-> mapping_errors(fsys, data),
         orphan_specs |->
            find_orphaned_files(fsys, <<"s", "p", "e", "c", "s">>,
                                mapped_files(fsys, data, K_specs)),
         orphan_tests |->
            find_orphaned_files(fsys, <<"t", "e", "s", "t", "-", "p", "l", "a", "n", "s">>,
                                mapped_files(fsys, data, K_test_plans))]

csv_header ==
    <<StrV(<<"D", "e", "v", "i", "c", "e", " ", "I", "D">>), StrV(<<"D", "e", "v", "i", "c", "e", " ", "N", "a", "m", "e">>), StrV(<<"C", "a", "t", "e", "g", "o", "r", "y">>), StrV(<<"S", "t", "a", "n", "d", "a", "r", "d">>), StrV(<<"S", "p", "e", "c", " ", "P", "a", "t", "h">>), StrV(<<"T", "e", "s", "t", " ", "P", "l", "a", "n", " ", "T", "y", "p", "e">>), StrV(<<"T", "e", "s", "t", " ", "P", "l", "a", "n", " ", "P", "a", "t", "h">>)>>

\* the rows of one device: the i-th spec beside the i-th test plan
device_rows(device) ==
    LET specs == device_list(device, K_specs)
        test_plans == device_list(device, K_test_plans)
        max_items == IF Len(specs) >= Len(test_plans) THEN Len(specs) ELSE Len(test_plans)
    IN  [i \in 1..max_items |->
            LET spec == IF i <= Len(specs) THEN specs[i] ELSE MapV(<<>>)
                test == IF i <= Len(test_plans) THEN test_plans[i] ELSE MapV(<<>>)
                first(value) == IF i = 1 THEN value ELSE StrV(S_empty)
            IN  <<first(GetOr(device, K_id, StrV(S_empty))),
                  first(GetOr(device, K_name, StrV(S_empty))),
                  first(GetOr(device, K_category, StrV(S_empty))),
                  GetOr(spec, K_standard, StrV(S_empty)),
                  GetOr(spec, K_path, StrV(S_empty)),
                  GetOr(test, K_type, StrV(S_empty)),
                  GetOr(test, K_path, StrV(S_empty))>>]

\* devices_csv of generate_csv_report
generate_csv_report(data) ==
    <<csv_header>>
    \o Flatten([d \in 1..Len(device_list(data, K_devices)) |->
                   device_rows(device_list(data, K_devices)[d])])

----------------------------------------------------------------------------
(* Generated configuration trees *)

RecA == MapV(<<Entry(K_file, StrV(F_usb4)), Entry(K_pages, IntV(50))>>)
RecNoFile == MapV(<<Entry(K_pages, IntV(7))>>)
RecNoPages == MapV(<<Entry(K_file, StrV(F_a))>>)
RecNullPages == MapV(<<Entry(K_file, StrV(F_B)), Entry(K_pages, NoneV)>>)
RecPath == MapV(<<Entry(K_path, StrV(F_c)), Entry(K_pages, IntV(3))>>)
RecNested ==
    MapV(<<Entry(K_file, StrV(F_c)),
           Entry(K_extra, MapV(<<Entry(K_specs, ListV(<<RecNoPages>>))>>))>>)

\* the list-key entries a generated mapping can carry
DocChoices ==
    { <<>>,
      <<Entry(K_specs, ListV(<<RecA>>))>>,
      <<Entry(K_test_plans, ListV(<<RecNoFile, RecNullPages>>)),
        Entry(K_specs, NoneV)>>,
      <<Entry(K_spec, ListV(<<StrV(L_TBD), RecNested>>)),
        Entry(K_specs, ListV(<<RecPath, RecNoPages>>))>> }

ChildKeys == {K_versions, K_USB4, K_description}

RECURSIVE MapNodes(_)
\* the mappings of nesting depth at most d
MapNodes(d) ==
    {MapV(dl) : dl \in DocChoices}
    \cup
    (IF d = 0 THEN {}
     ELSE LET sub == MapNodes(d - 1)
              children == {Entry(key, m) : key \in ChildKeys, m \in sub}
                          \cup {Entry(K_versions, ListV(<<StrV(L_TBD), m>>)) : m \in sub}
          IN  {MapV(dl \o <<c>>) : dl \in DocChoices, c \in children}
              \cup {MapV(<<c, Entry(K_specs, ListV(<<RecA>>))>>) : c \in children})

\* one section, or a bookkeeping section followed by a shallower one
ConfigTrees ==
    {MapV(<<Entry(K_usb, m)>>) : m \in MapNodes(MaxDepth)}
    \cup {MapV(<<Entry(K_stats, st), Entry(K_usb, m)>>) :
             st \in MapNodes(0), m \in MapNodes(MaxDepth - 1)}

----------------------------------------------------------------------------
(* Configuration text and its loading (yaml.safe_load on block-style text: *)
(* section lines, "  key:" lines, "  - key: value" records with          *)
(* "    key: value" continuation lines)                                    *)

T_newline == <<"\n">>
T_dash == <<" ", " ", "-", " ">>
T_indent2 == <<" ", " ">>
T_indent4 == <<" ", " ", " ", " ">>
T_colon == <<":">>
T_colon_space == <<":", " ">>
T_null == <<"n", "u", "l", "l">>
T_tilde == <<"~">>

RECURSIVE SplitLines(_)
SplitLines(text) ==
    IF text = <<>> THEN <<>>
    ELSE LET ends == {n \in 1..Len(text) : text[n] = "\n"}
             nl == IF ends = {} THEN Len(text) + 1
                   ELSE CHOOSE n \in ends : \A m \in ends : n <= m
         IN  <<SubSeq(text, 1, nl - 1)>> \o SplitLines(SubSeq(text, nl + 1, Len(text)))

\* the value a plain or single-quoted scalar resolves to
yaml_scalar(lexeme) ==
    IF lexeme = <<>> \/ lexeme = T_null \/ lexeme = T_tilde THEN NoneV
    ELSE IF IsDigits(lexeme) /\ (Len(lexeme) = 1 \/ Head(lexeme) # "0")
    THEN IntV(StrToNat(lexeme))
    ELSE IF Len(lexeme) >= 2 /\ Head(lexeme) = "'" /\ lexeme[Len(lexeme)] = "'"
    THEN StrV(SubSeq(lexeme, 2, Len(lexeme) - 1))
    ELSE StrV(lexeme)

\* the text after the first colon of a line
yaml_entry_value(body) ==
    LET colons == {n \in 1..Len(body) : body[n] = ":"}
    IN  IF colons = {} THEN <<>>
        ELSE SubSeq(body, (CHOOSE n \in colons : \A m \in colons : n <= m) + 1, Len(body))

\* "key: value" or "key:" as an entry
yaml_entry(body) ==
    LET colons == {n \in 1..Len(body) : body[n] = ":"}
        c == IF colons = {} THEN Len(body) + 1
             ELSE CHOOSE n \in colons : \A m \in colons : n <= m
    IN  Entry(SubSeq(body, 1, c - 1), yaml_scalar(Strip(SubSeq(body, c + 1, Len(body)))))

\* the sequence with its last element replaced
WithLast(seq, last) == [seq EXCEPT ![Len(seq)] = last]

\* the mapping `m` (None while it has no entry) with entry e added
map_add(m, e) == IF m.t = "map" THEN MapV(Append(m.items, e)) ELSE MapV(<<e>>)

\* the list `l` (None while it has no element) with element x added
list_add(l, x) == IF l.t = "list" THEN ListV(Append(l.items, x)) ELSE ListV(<<x>>)

\* the tree after one more line of the text
yaml_line(tree, line) ==
    IF Strip(line) = <<>> THEN tree
    ELSE IF StartsWith(line, T_dash)
    THEN \* a new record in the list under the last key of the last section
         LET sec == tree.items[Len(tree.items)]
             key == sec.v.items[Len(sec.v.items)]
             rec == MapV(<<yaml_entry(SubSeq(line, 5, Len(line)))>>)
         IN  MapV(WithLast(tree.items,
                 Entry(sec.k, MapV(WithLast(sec.v.items,
                     Entry(key.k, list_add(key.v, rec)))))))
    ELSE IF StartsWith(line, T_indent4)
    THEN \* one more entry of the last record
         LET sec == tree.items[Len(tree.items)]
             key == sec.v.items[Len(sec.v.items)]
             rec == key.v.items[Len(key.v.items)]
             ext == map_add(rec, yaml_entry(SubSeq(line, 5, Len(line))))
         IN  MapV(WithLast(tree.items,
                 Entry(sec.k, MapV(WithLast(sec.v.items,
                     Entry(key.k, ListV(WithLast(key.v.items, ext))))))))
    ELSE IF StartsWith(line, T_indent2)
    THEN \* one more entry of the last section
         LET sec == tree.items[Len(tree.items)]
         IN  MapV(WithLast(tree.items,
                 Entry(sec.k, map_add(sec.v, yaml_entry(SubSeq(line, 3, Len(line)))))))
    ELSE \* a new top-level key
         MapV(Append(tree.items, yaml_entry(line)))

RECURSIVE yaml_lines(_, _)
yaml_lines(tree, lines) ==
    IF lines = <<>> THEN tree
    ELSE yaml_lines(yaml_line(tree, Head(lines)), Tail(lines))

\* yaml.safe_load raises a YAMLError: a value opens a flow sequence that the
\* line does not close
yaml_raises(text) ==
    LET lines == SplitLines(text)
    IN  \E n \in 1..Len(lines) :
           LET value == Strip(yaml_entry_value(lines[n]))
           IN  value # <<>> /\ Head(value) = "[" /\ ~Contains(lines[n], <<"]">>)

\* yaml.safe_load(f)
safe_load(text) == yaml_lines(MapV(<<>>), SplitLines(text))

----------------------------------------------------------------------------
(* Generated configuration texts and file systems *)

T_header ==
    <<"u", "s", "b", ":", "\n", " ", " ", "s", "p", "e", "c", "s", ":", "\n">>
T_file_line == <<" ", " ", "-", " ", "f", "i", "l", "e", ":", " ">>
T_pages_line == <<" ", " ", " ", " ", "p", "a", "g", "e", "s", ":", " ">>
L_37 == <<"3", "7">>
L_quoted_37 == <<"'", "3", "7", "'">>
L_370 == <<"3", "7", "0">>
L_spaced_37 == <<" ", "3", "7">>
L_10 == <<"1", "0">>
L_5 == <<"5">>
L_download_error == <<"D", "o", "w", "n", "l", "o", "a", "d", " ", "E", "r", "r", "o", "r">>

Rec(file, lexeme) == [file |-> file, has_pages |-> TRUE, lexeme |-> lexeme]

\* the records a generated text is made of: reference and `pages` lexeme
RecordChoices ==
    { Rec(F_a, L_37), Rec(F_a, L_quoted_37), Rec(F_a, L_spaced_37),
      Rec(F_a, L_download_error), Rec(F_a, T_null),
      Rec(F_B, L_37), Rec(F_B, L_370), Rec(F_b_txt, L_370),
      Rec(F_available, L_NA_external), Rec(F_c, L_NA_external),
      Rec(F_registration, L_5), Rec(F_http, L_10) }

RecordText(r) ==
    T_file_line \o r.file \o T_newline
    \o (IF r.has_pages THEN T_pages_line \o r.lexeme \o T_newline ELSE <<>>)

\* a text yaml.safe_load rejects
T_malformed == <<"u", "s", "b", ":", " ", "[", "\n">>

ConfigTexts ==
    {T_malformed} \cup
    {T_header \o Flatten([n \in 1..Len(rs) |-> RecordText(rs[n])]) :
        rs \in UNION {[1..n -> RecordChoices] : n \in 1..MaxRecords}}

Absent == [exists |-> FALSE, readable |-> FALSE, header_ok |-> FALSE,
           pages |-> NoneV, error |-> <<>>]
Unreadable == [exists |-> TRUE, readable |-> FALSE, header_ok |-> FALSE,
               pages |-> NoneV, error |-> E_permission]
NotPdf == [exists |-> TRUE, readable |-> TRUE, header_ok |-> FALSE,
           pages |-> NoneV, error |-> <<>>]
Pdf(pages) == [exists |-> TRUE, readable |-> TRUE, header_ok |-> TRUE,
               pages |-> pages, error |-> <<>>]

FileSystems ==
    {(F_a :> a) @@ (F_B :> Pdf(IntV(37))) @@ (F_b_txt :> t) @@ (F_c :> c) :
        a \in {Absent, Unreadable, NotPdf, Pdf(NoneV), Pdf(IntV(42))},
        t \in {Absent, NotPdf},
        c \in {Absent, NotPdf}}

----------------------------------------------------------------------------
(* The validator scripts *)

Init ==
    /\ pc = "start"
    /\ script = "none"
    /\ fix_pages = FALSE
    /\ \/ config_exists = TRUE /\ config_file \in ConfigTexts
       \/ config_exists = FALSE /\ config_file = <<>>
    /\ loaded_text = <<>>
    /\ config = NoneV
    /\ files = <<>>
    /\ fs \in FileSystems
    /\ fs_checked = <<>>
    /\ missing_files = <<>>
    /\ invalid_files = <<>>
    /\ page_mismatches = <<>>
    /\ changes_made = 0
    /\ writes = 0
    /\ updated = FALSE
    /\ exit_code = -1
    /\ doc = NoneV
    /\ fixed = NoneV
    /\ uncaught = FALSE
    /\ config_fixed = NoneV
    /\ mappings = NoneV
    /\ results = NoneV
    /\ devices_csv = <<>>

NoUpdate(text) ==
    [content |-> text, changes_made |-> 0, written |-> FALSE, result |-> FALSE]

\* mutant: a successful reconciliation turns the exit code into 0
RunMain_exit_after_fix(name, fix, cfg, fl, res) ==
    LET success == print_config_results(res)
        upd == IF fix /\ res.page_mismatches # <<>>
               THEN update_config_with_actual_pages(config_file, res.page_mismatches)
               ELSE NoUpdate(config_file)
    IN  /\ pc' = "done"
        /\ script' = name
        /\ fix_pages' = fix
        /\ loaded_text' = config_file
        /\ config' = cfg
        /\ files' = fl
        /\ fs_checked' = res.fs_checked
        /\ missing_files' = res.missing_files
        /\ invalid_files' = res.invalid_files
        /\ page_mismatches' = res.page_mismatches
        /\ \E write_ok \in (IF upd.written THEN BOOLEAN ELSE {TRUE}) :
              /\ config_file' = IF write_ok THEN upd.content ELSE config_file
              /\ changes_made' = upd.changes_made
              /\ writes' = IF upd.written /\ write_ok THEN 1 ELSE 0
              /\ updated' = (upd.result /\ write_ok)
              /\ uncaught' = ~write_ok
              /\ exit_code' = IF ~write_ok THEN 1
                              ELSE IF success \/ upd.result THEN 0 ELSE 1
        /\ UNCHANGED <<fs, config_exists, doc, fixed, report_vars>>

\* the run of a validator script from loading the configuration to its exit
\* code: `res` is what its validator returned for the triples `fl`
RunMain(name, fix, cfg, fl, res) ==
    LET success == print_config_results(res)
        upd == IF fix /\ res.page_mismatches # <<>>
               THEN update_config_with_actual_pages(config_file, res.page_mismatches)
               ELSE NoUpdate(config_file)
    IN  /\ pc' = "done"
        /\ script' = name
        /\ fix_pages' = fix
        /\ loaded_text' = config_file
        /\ config' = cfg
        /\ files' = fl
        /\ fs_checked' = res.fs_checked
        /\ missing_files' = res.missing_files
        /\ invalid_files' = res.invalid_files
        /\ page_mismatches' = res.page_mismatches
        /\ \E write_ok \in (IF upd.written THEN BOOLEAN ELSE {TRUE}) :
              \* open(config_file, 'w') may raise an OSError, which nothing
              \* catches: the file is left as it was and the interpreter
              \* ends the run with a traceback and exit status 1
              /\ config_file' = IF write_ok THEN upd.content ELSE config_file
              /\ changes_made' = upd.changes_made
              /\ writes' = IF upd.written /\ write_ok THEN 1 ELSE 0
              /\ updated' = (upd.result /\ write_ok)
              /\ uncaught' = ~write_ok
              /\ exit_code' = IF ~write_ok THEN 1
                              ELSE IF success THEN 0 ELSE 1
        /\ UNCHANGED <<fs, config_exists, doc, fixed, report_vars>>

\* the configuration file is not found or cannot be loaded: the run prints the
\* error and ends with exit code 1
FatalExit(name, fix) ==
    /\ pc' = "done"
    /\ script' = name
    /\ fix_pages' = fix
    /\ exit_code' = 1
    /\ loaded_text' = config_file
    /\ UNCHANGED <<config_exists, config_file, config, files, fs, fs_checked,
                   missing_files, invalid_files, page_mismatches, changes_made, writes,
                   updated, doc, fixed, uncaught, report_vars>>

\* testplan_tools.py main()
TestplanToolsMain ==
    /\ pc = "start"
    /\ \E fix \in BOOLEAN :
          IF ~config_exists \/ yaml_raises(config_file)
          THEN FatalExit("testplan_tools", fix)
          ELSE LET cfg == safe_load(config_file)
                   fl == extract_files_from_config(cfg)
               IN  RunMain("testplan_tools", fix, cfg, fl, validate_config_files(fs, fl))

\* validate_config.py main()
ValidateConfigMain ==
    /\ pc = "start"
    /\ \E fix \in BOOLEAN :
          IF ~config_exists \/ yaml_raises(config_file)
          THEN FatalExit("validate_config", fix)
          ELSE LET cfg == safe_load(config_file)
                   fl == extract_files_from_config(cfg)
               IN  RunMain("validate_config", fix, cfg, fl, validate_files(fs, fl))

Next == TestplanToolsMain \/ ValidateConfigMain

Spec == Init /\ [][Next]_vars

----------------------------------------------------------------------------
(* The walker applied to a loaded tree *)

InitWalker ==
    /\ pc = "loaded"
    /\ script = "none"
    /\ fix_pages = FALSE
    /\ config \in ConfigTrees
    /\ files = <<>>
    /\ config_exists = TRUE
    /\ doc = NoneV
    /\ fixed = NoneV
    /\ uncaught = FALSE
    /\ config_fixed = NoneV
    /\ mappings = NoneV
    /\ results = NoneV
    /\ devices_csv = <<>>
    /\ config_file = <<>>
    /\ loaded_text = <<>>
    /\ fs = <<>>
    /\ fs_checked = <<>>
    /\ missing_files = <<>>
    /\ invalid_files = <<>>
    /\ page_mismatches = <<>>
    /\ changes_made = 0
    /\ writes = 0
    /\ updated = FALSE
    /\ exit_code = -1

ExtractFiles ==
    /\ pc = "loaded"
    /\ files' = extract_files_from_config(config)
    /\ pc' = "extracted"
    /\ UNCHANGED <<script, fix_pages, config_exists, config_file, loaded_text, config, fs,
                   fs_checked, missing_files, invalid_files, page_mismatches, changes_made,
                   writes, updated, exit_code, doc, fixed, uncaught, report_vars>>

NextWalker == ExtractFiles

WalkerSpec == InitWalker /\ [][NextWalker]_vars

----------------------------------------------------------------------------
(* fix_config applied to a document record *)

\* marks a key the generated record does not have
NoKey == [t |-> "nokey"]

L_minus_5 == <<"-", "5">>
L_2_0 == <<"2", ".", "0">>
L_restricted == <<"r", "e", "s", "t", "r", "i", "c", "t", "e", "d">>
L_std_ieee == <<"I", "E", "E", "E", " ", "8", "0", "2", ".", "3">>
L_std_rfc == <<"R", "F", "C", " ", "2", "5", "4", "4">>
L_std_usb == <<"U", "S", "B", " ", "3", ".", "2">>
L_std_iso == <<"I", "S", "O", " ", "9", "0", "0", "0">>

PagesChoices ==
    { NoKey, NoneV, IntV(37), IntV(0), IntV(0 - 3), BoolV(TRUE), FloatV(12, 5),
      StrV(L_37), StrV(L_spaced_37), StrV(L_minus_5), StrV(S_NA), StrV(S_NA_external),
      StrV(L_TBD) }

VersionChoices ==
    { NoKey, NoneV, StrV(S_empty), StrV(S_na), StrV(S_NA), StrV(L_2_0),
      IntV(0), IntV(3), FloatV(2, 0), FloatV(0, 0), BoolV(FALSE) }

FileChoices ==
    { NoKey, StrV(F_a), StrV(F_available), StrV(F_registration), StrV(F_http) }

AccessChoices == { NoKey, StrV(L_restricted) }

StandardChoices ==
    { NoKey, StrV(L_std_ieee), StrV(L_std_rfc), StrV(L_std_usb), StrV(L_std_iso) }

OptEntry(key, value) == IF value = NoKey THEN <<>> ELSE <<Entry(key, value)>>

DocOf(f, p, v, st, a) ==
    MapV(OptEntry(K_file, f) \o OptEntry(K_pages, p) \o OptEntry(K_version, v)
         \o OptEntry(K_standard, st) \o OptEntry(K_access, a))

Documents ==
    {DocOf(f, p, v, st, a) : f \in FileChoices, p \in PagesChoices, v \in VersionChoices,
                             st \in StandardChoices, a \in AccessChoices}

InitFix ==
    /\ pc = "document"
    /\ doc \in Documents
    /\ fixed = NoneV
    /\ uncaught = FALSE
    /\ config_fixed = NoneV
    /\ mappings = NoneV
    /\ results = NoneV
    /\ devices_csv = <<>>
    /\ script = "fix_config"
    /\ fix_pages = FALSE
    /\ config_exists = TRUE
    /\ config_file = <<>>
    /\ loaded_text = <<>>
    /\ config = NoneV
    /\ files = <<>>
    /\ fs = <<>>
    /\ fs_checked = <<>>
    /\ missing_files = <<>>
    /\ invalid_files = <<>>
    /\ page_mismatches = <<>>
    /\ changes_made = 0
    /\ writes = 0
    /\ updated = FALSE
    /\ exit_code = -1

\* process_document(doc)
ProcessDocument ==
    /\ pc = "document"
    /\ fixed' = process_document(doc)
    /\ pc' = "fixed"
    /\ UNCHANGED <<script, fix_pages, config_exists, config_file, loaded_text, config, files,
                   fs, fs_checked, missing_files, invalid_files, page_mismatches,
                   changes_made, writes, updated, exit_code, doc, uncaught, report_vars>>

\* process_document applied to a record it has already processed
ProcessDocumentAgain ==
    /\ pc = "fixed"
    /\ doc' = fixed
    /\ fixed' = process_document(fixed)
    /\ pc' = "refixed"
    /\ UNCHANGED <<script, fix_pages, config_exists, config_file, loaded_text, config, files,
                   fs, fs_checked, missing_files, invalid_files, page_mismatches,
                   changes_made, writes, updated, exit_code, uncaught, report_vars>>

NextFix == ProcessDocument \/ ProcessDocumentAgain

FixSpec == InitFix /\ [][NextFix]_vars

----------------------------------------------------------------------------
(* fix_config applied to a configuration tree *)

V_Gen5 == <<"G", "e", "n", "5">>
V_UFS31 == <<"U", "F", "S", "3", ".", "1">>
V_PCIe4 == <<"P", "C", "I", "e", "4">>
V_M2 == <<"M", ".", "2">>
V_UFS_PCIe == <<"U", "F", "S", "-", "P", "C", "I", "e">>
K_nvme == <<"n", "v", "m", "e">>
K_deep == <<"d", "e", "e", "p">>
K_misc == <<"m", "i", "s", "c">>

DocQuoted == MapV(<<Entry(K_file, StrV(F_a)), Entry(K_pages, StrV(L_37))>>)
DocExternal == MapV(<<Entry(K_file, StrV(F_available)), Entry(K_pages, StrV(S_NA_external))>>)
DocPlain == MapV(<<Entry(K_file, StrV(F_B)), Entry(K_pages, IntV(37)),
                   Entry(K_access, StrV(S_local))>>)

\* the data of a version: lists of its own, one mapping level down, two
\* levels down, and a `spec` list
VersionData ==
    { MapV(<<Entry(K_specs, ListV(<<DocQuoted>>))>>),
      MapV(<<Entry(K_test_plans, ListV(<<DocExternal, DocPlain>>)),
             Entry(K_nvme, MapV(<<Entry(K_specs, ListV(<<DocQuoted>>))>>))>>),
      MapV(<<Entry(K_nvme, MapV(<<Entry(K_deep,
                 MapV(<<Entry(K_specs, ListV(<<DocQuoted>>))>>))>>))>>),
      MapV(<<Entry(K_spec, ListV(<<DocQuoted>>))>>) }

VersionKeys == {V_Gen5, V_UFS31, V_PCIe4, V_M2, V_UFS_PCIe}

\* the data of a version of pcie_storage
PcieVersionData ==
    { MapV(<<Entry(K_specs, ListV(<<DocQuoted>>))>>),
      MapV(<<Entry(K_test_plans, ListV(<<DocPlain>>))>>) }

\* the `versions` mappings with m entries, their keys all different
VersionMapsOf(m) ==
    {MapV([j \in 1..m |-> Entry(ks[j], vd[j])]) :
        ks \in {q \in [1..m -> VersionKeys] : \A i, j \in 1..m : i # j => q[i] # q[j]},
        vd \in [1..m -> PcieVersionData]}

\* the `versions` mappings with at most n entries
VersionMaps(n) == UNION {VersionMapsOf(m) : m \in 0..n}

PcieStorageChoices ==
    {<<>>, <<Entry(K_pcie_storage, MapV(<<Entry(K_category, StrV(S_storage))>>))>>}
    \cup {<<Entry(K_pcie_storage,
                  MapV(<<Entry(K_category, StrV(S_storage)), Entry(K_versions, vm)>>))>> :
             vm \in VersionMaps(MaxVersions)}

UsbChoices ==
    {<<>>, <<Entry(K_usb, MapV(<<Entry(K_specs, ListV(<<DocQuoted>>))>>))>>}
    \cup {<<Entry(K_usb, MapV(<<Entry(K_versions, MapV(<<Entry(K_USB4, vd)>>))>>))>> :
             vd \in VersionData}

OtherChoices ==
    { <<>>,
      <<Entry(K_fips_security, MapV(<<Entry(K_description, StrV(S_empty))>>))>>,
      <<Entry(K_misc, MapV(<<Entry(K_versions,
            MapV(<<Entry(K_USB4, MapV(<<Entry(K_specs, ListV(<<DocQuoted>>))>>))>>))>>))>> }

FixConfigs ==
    {MapV(u \o o \o ps) : u \in UsbChoices, o \in OtherChoices, ps \in PcieStorageChoices}

InitFixMain ==
    /\ pc = "config"
    /\ config \in FixConfigs
    /\ config_fixed = NoneV
    /\ script = "fix_config"
    /\ fix_pages = FALSE
    /\ config_exists = TRUE
    /\ config_file = <<>>
    /\ loaded_text = <<>>
    /\ files = <<>>
    /\ fs = <<>>
    /\ fs_checked = <<>>
    /\ missing_files = <<>>
    /\ invalid_files = <<>>
    /\ page_mismatches = <<>>
    /\ changes_made = 0
    /\ writes = 0
    /\ updated = FALSE
    /\ exit_code = -1
    /\ doc = NoneV
    /\ fixed = NoneV
    /\ uncaught = FALSE
    /\ mappings = NoneV
    /\ results = NoneV
    /\ devices_csv = <<>>

\* fix_config.py main(): the loaded tree is processed and written to
\* config_fixed.yaml
FixConfigMain ==
    /\ pc = "config"
    /\ config_fixed' = fix_config_main(config)
    /\ pc' = "written"
    /\ exit_code' = 0
    /\ UNCHANGED <<script, fix_pages, config_exists, config_file, loaded_text, config, files,
                   fs, fs_checked, missing_files, invalid_files, page_mismatches,
                   changes_made, writes, updated, doc, fixed, uncaught,
                   mappings, results, devices_csv>>

NextFixMain == FixConfigMain

FixMainSpec == InitFixMain /\ [][NextFixMain]_vars

----------------------------------------------------------------------------
(* validate_mappings.py and generate_report.py on generated device-mapping files *)

MaxDevices == 2

P_spec_a == <<"s", "p", "e", "c", "s", "/", "a", ".", "p", "d", "f">>
P_spec_o == <<"s", "p", "e", "c", "s", "/", "o", ".", "p", "d", "f">>
P_spec_n == <<"s", "p", "e", "c", "s", "/", "n", ".", "t", "x", "t">>
P_spec_readme == <<"s", "p", "e", "c", "s", "/", "r", "e", "a", "d", "m", "e", ".", "m", "d">>
P_test_t == <<"t", "e", "s", "t", "-", "p", "l", "a", "n", "s", "/", "t", ".", "p", "d", "f">>
L_d1 == <<"d", "1">>
L_d2 == <<"d", "2">>
L_router == <<"r", "o", "u", "t", "e", "r">>
L_network == <<"n", "e", "t", "w", "o", "r", "k">>
L_conformance == <<"c", "o", "n", "f", "o", "r", "m", "a", "n", "c", "e">>

SpecA == MapV(<<Entry(K_standard, StrV(L_std_ieee)), Entry(K_path, StrV(P_spec_a))>>)
SpecO == MapV(<<Entry(K_path, StrV(P_spec_o))>>)
SpecEmptyPath == MapV(<<Entry(K_standard, StrV(L_std_rfc)), Entry(K_path, StrV(S_empty))>>)
SpecNoPath == MapV(<<Entry(K_standard, StrV(L_std_usb))>>)
TestT == MapV(<<Entry(K_type, StrV(L_conformance)), Entry(K_path, StrV(P_test_t))>>)
TestEmptyPath == MapV(<<Entry(K_type, StrV(L_conformance)), Entry(K_path, StrV(S_empty))>>)

DeviceOf(id, name, category, specs, test_plans) ==
    MapV(OptEntry(K_id, id) \o OptEntry(K_name, name) \o OptEntry(K_category, category)
         \o OptEntry(K_specs, specs) \o OptEntry(K_test_plans, test_plans))

DeviceChoices ==
    {DeviceOf(StrV(L_d1), StrV(L_router), StrV(L_network), ListV(<<SpecA>>), ListV(<<TestT>>)),
     DeviceOf(StrV(L_d1), StrV(L_router), NoKey, ListV(<<SpecA, SpecO>>), ListV(<<TestT>>)),
     DeviceOf(StrV(L_d2), StrV(L_router), StrV(L_network), ListV(<<SpecA>>),
              ListV(<<TestT, TestEmptyPath>>)),
     DeviceOf(StrV(L_d2), StrV(L_router), StrV(L_network), ListV(<<>>), ListV(<<>>)),
     DeviceOf(StrV(L_d2), NoKey, StrV(L_network), NoKey, NoKey),
     DeviceOf(NoKey, StrV(L_router), StrV(L_network), ListV(<<SpecNoPath>>), ListV(<<TestT>>)),
     DeviceOf(StrV(L_d1), StrV(L_router), StrV(L_network), ListV(<<SpecO>>), NoKey),
     DeviceOf(StrV(L_d2), StrV(L_router), StrV(L_network), ListV(<<SpecA, SpecEmptyPath>>),
              ListV(<<>>)),
     DeviceOf(StrV(L_d1), StrV(L_router), StrV(L_network), NoKey, ListV(<<TestT>>))}

DeviceLists(n) == UNION {[1..m -> DeviceChoices] : m \in 0..n}

\* device-mappings.yaml as loaded: with and without the `devices` key
MappingFiles ==
    {MapV(<<Entry(K_devices, ListV(devices))>>) : devices \in DeviceLists(MaxDevices)}
    \cup {MapV(<<>>)}

OnDisk(size) == [exists |-> TRUE, size |-> size]
NotOnDisk == [exists |-> FALSE, size |-> 0]

\* specs/readme.md is neither *.pdf nor *.txt; specs/n.txt is mapped by no device
MappingFileSystems ==
    {(P_spec_a :> a) @@ (P_spec_o :> o) @@ (P_spec_n :> n) @@ (P_test_t :> t)
     @@ (P_spec_readme :> OnDisk(200)) :
        a \in {NotOnDisk, OnDisk(2621440)},
        o \in {NotOnDisk, OnDisk(1000)},
        n \in {NotOnDisk, OnDisk(5767168)},
        t \in {NotOnDisk, OnDisk(1048576)}}

InitMappings ==
    /\ pc = "mappings"
    /\ mappings \in MappingFiles
    /\ fs \in MappingFileSystems
    /\ results = NoneV
    /\ devices_csv = <<>>
    /\ script = "none"
    /\ fix_pages = FALSE
    /\ config_exists = FALSE
    /\ config_file = <<>>
    /\ loaded_text = <<>>
    /\ config = NoneV
    /\ config_fixed = NoneV
    /\ files = <<>>
    /\ fs_checked = <<>>
    /\ missing_files = <<>>
    /\ invalid_files = <<>>
    /\ page_mismatches = <<>>
    /\ changes_made = 0
    /\ writes = 0
    /\ updated = FALSE
    /\ exit_code = -1
    /\ doc = NoneV
    /\ fixed = NoneV
    /\ uncaught = FALSE

\* validate_mappings.py: validate, print, exit with 1 when there are issues
ValidateMappingsMain ==
    /\ pc = "mappings"
    /\ script' = "validate_mappings"
    /\ results' = validate_mappings(fs, mappings)
    /\ LET total_issues == Len(results'.missing_specs) + Len(results'.missing_tests)
                            + Len(results'.errors)
       IN  exit_code' = IF total_issues > 0 THEN 1 ELSE 0
    /\ pc' = "validated"
    /\ UNCHANGED <<fix_pages, config_exists, config_file, loaded_text, config, files,
                   fs, fs_checked, missing_files, invalid_files, page_mismatches,
                   changes_made, writes, updated, doc, fixed, uncaught,
                   config_fixed, mappings, devices_csv>>

\* generate_report.py --format csv: the rows of device_coverage_report.csv
GenerateCsvReport ==
    /\ pc = "mappings"
    /\ script' = "generate_report"
    /\ devices_csv' = generate_csv_report(mappings)
    /\ exit_code' = 0
    /\ pc' = "reported"
    /\ UNCHANGED <<fix_pages, config_exists, config_file, loaded_text, config, files,
                   fs, fs_checked, missing_files, invalid_files, page_mismatches,
                   changes_made, writes, updated, doc, fixed, uncaught,
                   config_fixed, mappings, results>>

NextMappings == ValidateMappingsMain \/ GenerateCsvReport

MappingsSpec == InitMappings /\ [][NextMappings]_vars

----------------------------------------------------------------------------
(* Positions of the configuration tree, used to state the walker's claims *)

KeyStep(key) == [kind |-> "key", key |-> key]
IdxStep(n) == [kind |-> "idx", idx |-> n]

RECURSIVE NodePaths(_, _)
\* every position of the tree below `node`, as the steps leading to it
NodePaths(node, path) ==
    {path} \cup
    (IF node.t = "map"
     THEN UNION {NodePaths(node.items[n].v, Append(path, KeyStep(node.items[n].k))) :
                    n \in 1..Len(node.items)}
     ELSE IF node.t = "list"
     THEN UNION {NodePaths(node.items[n], Append(path, IdxStep(n))) :
                    n \in 1..Len(node.items)}
     ELSE {})

RECURSIVE NodeAt(_, _)
NodeAt(node, path) ==
    IF path = <<>> THEN node
    ELSE IF Head(path).kind = "key"
    THEN NodeAt(Get(node, Head(path).key), Tail(path))
    ELSE NodeAt(node.items[Head(path).idx], Tail(path))

DocKeys == {K_specs, K_test_plans, K_spec}

\* a DocumentRecord: a mapping with a `file` entry that is an element of a
\* specs / test_plans / spec list of a mapping at or below a section's value
IsDocumentRecord(root, p) ==
    /\ Len(p) >= 3
    /\ p[Len(p)].kind = "idx"
    /\ p[Len(p) - 1].kind = "key"
    /\ p[Len(p) - 1].key \in DocKeys
    /\ NodeAt(root, p).t = "map"
    /\ HasKey(NodeAt(root, p), K_file)

\* the DocumentRecords below a non-excluded top-level key
ReachableRecords(root) ==
    {p \in NodePaths(root, <<>>) :
        IsDocumentRecord(root, p) /\ p[1].key \notin ExcludedSections}

\* those reached without passing through the value of a specs, test_plans,
\* spec, category or description key below the top level
VisibleRecords(root) ==
    {p \in ReachableRecords(root) :
        \A j \in 2..(Len(p) - 2) : p[j].kind = "key" => p[j].key \notin SkipKeys}

\* the mapping keys of a path, in the order they are traversed
PathKeys(p) ==
    LET ks == SelectSeq(p, LAMBDA st : st.kind = "key")
    IN  [n \in 1..Len(ks) |-> ks[n].key]

RECURSIVE DotJoin(_)
DotJoin(ks) ==
    IF ks = <<>> THEN <<>>
    ELSE IF Len(ks) = 1 THEN ks[1]
    ELSE ks[1] \o S_dot \o DotJoin(Tail(ks))

RECURSIVE DotPrefixed(_)
\* ".k1.k2...kn"
DotPrefixed(ks) == IF ks = <<>> THEN <<>> ELSE S_dot \o Head(ks) \o DotPrefixed(Tail(ks))

FilePages(root, p) ==
    [file |-> Get(NodeAt(root, p), K_file),
     pages |-> GetOr(NodeAt(root, p), K_pages, StrV(S_unknown))]

\* the emitted triples and the records at `paths` carry the same values the
\* same number of times (emitted(n) and expected(p) are the compared values)
SameBag(paths, emitted(_), expected(_)) ==
    /\ \A n \in 1..Len(files) :
          Cardinality({m \in 1..Len(files) : emitted(m) = emitted(n)})
            = Cardinality({p \in paths : expected(p) = emitted(n)})
    /\ \A p \in paths : \E n \in 1..Len(files) : emitted(n) = expected(p)

EmittedFilePages(n) == [file |-> files[n].file, pages |-> files[n].pages]

EmittedFileCategory(n) == [file |-> files[n].file, category |-> files[n].category]

\* C2 (as claimed): the category label is the dot-joined sequence of the
\* mapping keys traversed from the root to the record, in traversal order.
C2_LabelInTraversalOrder ==
    pc = "extracted" =>
        SameBag(VisibleRecords(config), EmittedFileCategory,
                LAMBDA p : [file |-> Get(NodeAt(config, p), K_file),
                            category |-> DotJoin(PathKeys(p))])

\* the traversed keys with the last one (the list key) moved to second place
ListKeySecond(ks) == <<ks[1], ks[Len(ks)]>> \o SubSeq(ks, 2, Len(ks) - 1)

\* C2 (amended): the category label is the dot-joined sequence of the mapping
\* keys traversed from the root to the record (sequence elements contribute
\* nothing), with the list key placed second, right after the section key,
\* and the intermediate keys after it in traversal order.
C2_LabelListKeySecond ==
    pc = "extracted" =>
        SameBag(VisibleRecords(config), EmittedFileCategory,
                LAMBDA p : [file |-> Get(NodeAt(config, p), K_file),
                            category |-> DotJoin(ListKeySecond(PathKeys(p)))])

\* a record two mapping levels below its section has been labelled
C2_Witness ==
    /\ pc = "extracted"
    /\ \E p \in VisibleRecords(config) :
          /\ Len(PathKeys(p)) >= 4
          /\ \E n \in 1..Len(files) :
                files[n].category = DotJoin(ListKeySecond(PathKeys(p)))

UsbScenario ==
    MapV(<<Entry(K_usb, MapV(<<Entry(K_versions, MapV(<<Entry(K_USB4,
        MapV(<<Entry(K_specs, ListV(<<RecA>>))>>))>>))>>))>>)

UsbScenarioLabel ==
    <<"u", "s", "b", ".", "s", "p", "e", "c", "s", ".",
      "v", "e", "r", "s", "i", "o", "n", "s", ".", "U", "S", "B", "4">>

\* the label S.K.k1...kn of the record at p
SectionListKeyThenPath(p) ==
    LET ks == PathKeys(p)
    IN  ks[1] \o S_dot \o ks[Len(ks)] \o DotPrefixed(SubSeq(ks, 2, Len(ks) - 1))

\* C3: a record in list key K of a mapping reached from section S through
\* intermediate keys k1..kn is emitted with category S.K.k1...kn, and the
\* usb / versions / USB4 tree yields exactly ("specs/usb4.pdf", 50,
\* "usb.specs.versions.USB4").
C3_CategoryForm ==
    pc = "extracted" =>
        /\ \A p \in VisibleRecords(config) :
              \E n \in 1..Len(files) :
                 /\ files[n].file = Get(NodeAt(config, p), K_file)
                 /\ files[n].category = SectionListKeyThenPath(p)
        /\ \A n \in 1..Len(files) :
              \E p \in VisibleRecords(config) :
                 /\ files[n].file = Get(NodeAt(config, p), K_file)
                 /\ files[n].category = SectionListKeyThenPath(p)
        /\ (config = UsbScenario =>
              files = <<[file |-> StrV(F_usb4), pages |-> IntV(50),
                         category |-> UsbScenarioLabel]>>)

\* the usb / versions / USB4 tree has been walked
C3_Witness ==
    pc = "extracted" /\ config = UsbScenario /\ Len(files) = 1

----------------------------------------------------------------------------
(* Claims about the validators *)

Range(seq) == {seq[n] : n \in 1..Len(seq)}

\* C4: a reference that matches the external rule is skipped by the
\* validator: it is not handed to the existence check and is not put in the
\* missing list, even when its path does not exist on disk.
C4_ExternalNeverMissing ==
    pc = "done" =>
        \A n \in 1..Len(files) :
            is_external(files[n]) =>
                /\ files[n].file.s \notin Range(fs_checked)
                /\ missing_entry(files[n]) \notin Range(missing_files)

\* the reference string is a sentinel: it begins with "Available", contains
\* "requires registration", or is a URL
IsSentinelReference(ref) ==
    \/ StartsWith(ref, S_Available)
    \/ Contains(Lower(ref), S_requires_registration)
    \/ StartsWith(ref, S_http)

\* C5: a record whose reference is a sentinel ("Available...", "requires
\* registration", a URL) is never checked against the file system and never
\* reported missing (stated for the runs of testplan_tools, the validator
\* that has an external rule).
C5_SentinelNeverChecked ==
    (pc = "done" /\ script = "testplan_tools") =>
        \A n \in 1..Len(files) :
            IsSentinelReference(files[n].file.s) =>
                /\ files[n].file.s \notin Range(fs_checked)
                /\ missing_entry(files[n]) \notin Range(missing_files)

InMissing(path) == \E e \in Range(missing_files) : StartsWith(e, path \o S_from_open)

InInvalid(path) ==
    \E e \in Range(invalid_files) :
        StartsWith(e, path \o S_not_valid_pdf) \/ StartsWith(e, path \o S_cannot_read)

InMismatches(path) == \E m \in Range(page_mismatches) : m.file_path = path

IsPdfName(path) == EndsWith(Lower(path), S_dot_pdf)

HasSignature(path) == fs[path].readable /\ fs[path].header_ok

AtMostOneList(path) ==
    /\ ~(InMissing(path) /\ InInvalid(path))
    /\ ~(InMissing(path) /\ InMismatches(path))
    /\ ~(InInvalid(path) /\ InMismatches(path))

\* C6 (as claimed; the second clause stated for references that are paths,
\* not sentinel strings): a path is in at most one of the three lists; a
\* nonexistent path is missing whatever its extension or declared pages; an
\* existing non-.pdf path is never invalid or mismatched; an existing .pdf
\* without the %PDF signature is invalid whatever its declared pages.
C6_FirstMatchAsClaimed ==
    (pc = "done" /\ script = "testplan_tools") =>
        \A n \in 1..Len(files) :
            LET path == files[n].file.s
            IN  /\ AtMostOneList(path)
                /\ (~path_exists(fs, path) /\ ~IsSentinelReference(path))
                      => InMissing(path)
                /\ (path_exists(fs, path) /\ ~IsPdfName(path))
                      => (~InInvalid(path) /\ ~InMismatches(path))
                /\ (path_exists(fs, path) /\ IsPdfName(path) /\ ~HasSignature(path))
                      => InInvalid(path)

\* C6 (amended): the external rule comes first, so the second and fourth
\* clauses hold of the references that do not match the external rule: a path
\* is in at most one of the three lists; a nonexistent path that is not
\* external is missing whatever its extension or declared pages; an existing
\* non-.pdf path is never invalid or mismatched; an existing .pdf that is not
\* external and lacks the %PDF signature (or cannot be read) is invalid even
\* when its declared pages is "unknown", "n/a" or contains "error"; and an
\* external reference is in none of the lists.
C6_FirstMatchWins ==
    (pc = "done" /\ script = "testplan_tools") =>
        /\ \A n \in 1..Len(files) :
            LET path == files[n].file.s
            IN  /\ AtMostOneList(path)
                /\ (~is_external(files[n]) /\ ~path_exists(fs, path))
                      => missing_entry(files[n]) \in Range(missing_files)
                /\ (path_exists(fs, path) /\ ~IsPdfName(path))
                      => (~InInvalid(path) /\ ~InMismatches(path))
                /\ (~is_external(files[n]) /\ path_exists(fs, path)
                      /\ IsPdfName(path) /\ ~HasSignature(path))
                      => InInvalid(path)
        /\ Len(missing_files) + Len(invalid_files) + Len(page_mismatches)
              <= Cardinality({n \in 1..Len(files) : ~is_external(files[n])})

\* an existing .pdf without the signature whose declared pages is an error
\* sentinel was reported invalid, next to a nonexistent non-.pdf path
C6_Witness ==
    /\ pc = "done" /\ script = "testplan_tools"
    /\ \E n \in 1..Len(files) :
          /\ is_unknown_sentinel(files[n].pages)
          /\ path_exists(fs, files[n].file.s)
          /\ InInvalid(files[n].file.s)
    /\ \E n \in 1..Len(files) :
          ~IsPdfName(files[n].file.s) /\ InMissing(files[n].file.s)

\* the conditions of a recorded mismatch, taken together
IsMismatch(t) ==
    /\ ~is_external(t)
    /\ path_exists(fs, t.file.s)
    /\ IsPdfName(t.file.s)
    /\ HasSignature(t.file.s)
    /\ ~is_unknown_sentinel(t.pages)
    /\ fs[t.file.s].pages.t = "int"
    /\ PyInt(t.pages).ok
    /\ PyInt(t.pages).i # fs[t.file.s].pages.i

\* C7: page_mismatches holds, in order, exactly the triples that are not
\* external, whose path exists, ends in .pdf (in any letter case) and carries
\* the %PDF signature, whose declared pages is no unknown / error sentinel
\* and parses as an integer, and whose actual count was determined and
\* differs from it; each entry is (path, actual count, declared value as
\* declared).
C7_MismatchIff ==
    (pc = "done" /\ script = "testplan_tools") =>
        page_mismatches =
            Flatten([n \in 1..Len(files) |->
                IF IsMismatch(files[n])
                THEN <<[file_path |-> files[n].file.s,
                        actual_pages |-> fs[files[n].file.s].pages.i,
                        expected_pages |-> files[n].pages]>>
                ELSE <<>>])

\* a page count declared as the string "37" was recorded as declared, and a
\* triple whose declared count equals the actual one was not recorded
C7_Witness ==
    /\ pc = "done" /\ script = "testplan_tools"
    /\ \E m \in Range(page_mismatches) : m.expected_pages = StrV(L_37)
    /\ \E n \in 1..Len(files) :
          /\ files[n].pages = IntV(37)
          /\ path_exists(fs, files[n].file.s)
          /\ fs[files[n].file.s].pages = IntV(37)
          /\ ~InMismatches(files[n].file.s)

----------------------------------------------------------------------------
(* Claims about the page-count reconciliation *)

\* update_config_with_actual_pages was called in this run and its file I/O
\* succeeded
FixRan == pc = "done" /\ fix_pages /\ page_mismatches # <<>> /\ ~uncaught

\* the text after the first k mismatches have had their turn
TextAfter(k) == update_loop(loaded_text, SubSeq(page_mismatches, 1, k), 0).content

\* r is s with every occurrence of old replaced by new (the occurrences of
\* a `pages: <value>` pattern cannot overlap)
IsReplacedEverywhere(s, old, new, r) ==
    LET occ == Occurrences(s, old)
        delta == Len(new) - Len(old)
        Before(n) == Cardinality({o \in occ : o + Len(old) - 1 < n})
        Inside(n) == \E o \in occ : o <= n /\ n <= o + Len(old) - 1
    IN  /\ Len(r) = Len(s) + Cardinality(occ) * delta
        /\ \A n \in 1..Len(s) : ~Inside(n) => r[n + Before(n) * delta] = s[n]
        /\ \A o \in occ :
              SubSeq(r, o + Before(o) * delta, o + Before(o) * delta + Len(new) - 1) = new

\* the lines of the text that are exactly a `pages:` line with this value
PagesLines(text, value) ==
    {n \in 1..Len(SplitLines(text)) : SplitLines(text)[n] = T_pages_line \o value}

\* C8: for each mismatch in list order, every literal occurrence of
\* `pages: <declared>` in the text is replaced by `pages: <actual>`, over
\* the whole text: every record that carries the declared value is
\* rewritten, verified as mismatched or not.
C8_ReplacesEveryOccurrence ==
    FixRan =>
        /\ \A k \in 1..Len(page_mismatches) :
              IsReplacedEverywhere(TextAfter(k - 1),
                                   S_pages_colon \o PyStr(page_mismatches[k].expected_pages),
                                   S_pages_colon \o IntToStr(page_mismatches[k].actual_pages),
                                   TextAfter(k))
        /\ config_file = TextAfter(Len(page_mismatches))
        /\ \A n \in PagesLines(loaded_text, PyStr(page_mismatches[1].expected_pages)) :
              SplitLines(TextAfter(1))[n]
                 = T_pages_line \o IntToStr(page_mismatches[1].actual_pages)

\* two records declared 37 pages, one was verified as mismatched (42 actual
\* pages), and both were rewritten
C8_Witness ==
    /\ FixRan
    /\ Len(page_mismatches) = 1
    /\ page_mismatches[1].expected_pages = IntV(37)
    /\ Cardinality(PagesLines(loaded_text, L_37)) = 2
    /\ Cardinality(PagesLines(config_file, <<"4", "2">>)) = 2

P_pages_37 == S_pages_colon \o L_37
P_pages_42 == S_pages_colon \o <<"4", "2">>

\* C9: with the single mismatch (path, actual 42, declared 37) and a text
\* holding exactly one occurrence of `pages: 37`, the reconciled text holds
\* `pages: 42` and no `pages: 37`, and validating the reconciled
\* configuration again reports no mismatch for that path.
C9_RoundTrip ==
    (/\ FixRan
     /\ script = "testplan_tools"
     /\ Len(page_mismatches) = 1
     /\ page_mismatches[1].actual_pages = 42
     /\ page_mismatches[1].expected_pages = IntV(37)
     /\ Cardinality(Occurrences(loaded_text, P_pages_37)) = 1)
    => /\ Contains(config_file, P_pages_42)
       /\ ~Contains(config_file, P_pages_37)
       /\ LET again == validate_config_files(fs,
                          extract_files_from_config(safe_load(config_file)))
          IN  \A m \in Range(again.page_mismatches) :
                 m.file_path # page_mismatches[1].file_path

\* the mismatches whose pattern is in the text when their turn comes
PatternsFound ==
    {k \in 1..Len(page_mismatches) :
        Contains(TextAfter(k - 1),
                 S_pages_colon \o PyStr(page_mismatches[k].expected_pages))}

\* C10: the change count is the number of mismatches whose pattern
\* `pages: <declared>` is in the text when their turn comes; with a zero
\* count, or no mismatch, the file is not written and False is returned,
\* otherwise the file is written once and True is returned.
C10_ChangeCount ==
    /\ FixRan =>
          /\ changes_made = Cardinality(PatternsFound)
          /\ changes_made = 0 => (writes = 0 /\ ~updated /\ config_file = loaded_text)
          /\ changes_made > 0 => (writes = 1 /\ updated)
    /\ (pc = "done" /\ page_mismatches = <<>>) =>
          (changes_made = 0 /\ writes = 0 /\ ~updated /\ config_file = loaded_text)

\* two mismatches, the pattern of one of them no longer in the text at its
\* turn: one change counted, the file written once
C10_Witness ==
    /\ FixRan
    /\ Len(page_mismatches) = 2
    /\ changes_made = 1
    /\ writes = 1

----------------------------------------------------------------------------
(* Exit codes of the validator scripts *)

\* C11 (as claimed): in fix-pages mode, when the reconciliation runs and its
\* file I/O succeeds, the script ends with exit code 0, also when the pattern
\* of some mismatch was not found.
C11_FixExitsZero == FixRan => exit_code = 0

\* C11 (amended): in fix-pages mode, whenever the reconciliation runs the
\* script ends with exit code 1, whether every pattern was found, some were
\* not, or the file was not rewritten at all: the exit code is decided by the
\* validation result obtained before the reconciliation.
C11_FixExitsOne ==
    /\ FixRan => exit_code = 1
    /\ (pc = "done" /\ config # NoneV) =>
          (exit_code = 0 <=>
              missing_files = <<>> /\ invalid_files = <<>> /\ page_mismatches = <<>>)

\* a reconciliation rewrote the file although the pattern of one of its
\* mismatches was not found
C11_Witness ==
    /\ FixRan
    /\ writes = 1
    /\ updated
    /\ 0 < changes_made /\ changes_made < Len(page_mismatches)

\* the classes of a triple that only skip it, and the class of a valid one
SkipClasses == {"external", "non_pdf", "unknown_expected", "undeterminable", "unparseable"}

\* the class the validator of the script that ran gives the n-th triple
ClassOf(n) ==
    IF script = "testplan_tools" THEN tt_classify(fs, files[n]) ELSE vc_classify(fs, files[n])

\* the configuration file the run was started on is absent or is not YAML
CannotLoad == ~config_exists \/ (writes = 0 /\ yaml_raises(config_file))

\* the run ended before the configuration was loaded
EndedFatally == pc = "done" /\ config = NoneV

\* C12: a validator script ends with exit code 0 exactly when it found no
\* issue (missing_files, invalid_files and page_mismatches all empty) and with
\* exit code 1 on any validation failure and when the configuration file is
\* not found or cannot be loaded; references its validator only skipped
\* never make the exit code non-zero.
C12_ExitCode ==
    /\ pc = "done" => exit_code \in {0, 1}
    /\ (pc = "done" /\ CannotLoad) => (EndedFatally /\ exit_code = 1)
    /\ (pc = "done" /\ ~EndedFatally) =>
          /\ exit_code = 0 <=>
                missing_files = <<>> /\ invalid_files = <<>> /\ page_mismatches = <<>>
          /\ (\A n \in 1..Len(files) : ClassOf(n) \in SkipClasses \cup {"valid"})
                => exit_code = 0

\* a run that skipped a reference whose page count cannot be determined, and
\* nothing else than skipped or valid references, has ended
C12_Witness ==
    /\ pc = "done" /\ ~EndedFatally
    /\ exit_code = 0
    /\ Len(files) = MaxRecords
    /\ \E n \in 1..Len(files) : ClassOf(n) = "undeterminable"
    /\ \E n \in 1..Len(files) : ClassOf(n) \in {"external", "non_pdf", "unparseable"}

\* a run on a configuration file that cannot be loaded has ended
C12_WitnessFatal == EndedFatally /\ config_exists /\ exit_code = 1

----------------------------------------------------------------------------
(* The entries of the specs / test_plans / spec lists and the order of the *)
(* walker's output                                                          *)

\* the elements of the specs / test_plans / spec lists the walker comes to:
\* below a non-excluded top-level key, not through the value of a specs,
\* test_plans, spec, category or description key
VisibleEntries(root) ==
    {p \in NodePaths(root, <<>>) :
        /\ Len(p) >= 3
        /\ p[Len(p)].kind = "idx"
        /\ p[Len(p) - 1].kind = "key"
        /\ p[Len(p) - 1].key \in DocKeys
        /\ p[1].key \notin ExcludedSections
        /\ \A j \in 2..(Len(p) - 2) : p[j].kind = "key" => p[j].key \notin SkipKeys}

\* the entry is not a mapping, or has neither a `file` nor a `path` key
LacksReference(root, p) ==
    \/ NodeAt(root, p).t # "map"
    \/ ~HasKey(NodeAt(root, p), K_file) /\ ~HasKey(NodeAt(root, p), K_path)

\* the reference (`file`, else `path`) and declared pages of an entry
ReferencePages(root, p) ==
    [file |-> IF HasKey(NodeAt(root, p), K_file) THEN Get(NodeAt(root, p), K_file)
              ELSE Get(NodeAt(root, p), K_path),
     pages |-> GetOr(NodeAt(root, p), K_pages, StrV(S_unknown))]

\* q is a later element of the list p is an element of
LaterSibling(p, q) ==
    /\ Len(q) = Len(p)
    /\ SubSeq(q, 1, Len(q) - 1) = SubSeq(p, 1, Len(p) - 1)
    /\ q[Len(q)].idx > p[Len(p)].idx

\* C13: the walker never emits a triple for an entry of a specs / test_plans
\* / spec list that is not a mapping or has neither a `file` nor a `path` key
\* (every emitted triple is the triple of an entry of its own that has one),
\* and the entries that follow a skipped entry in its list are still walked.
C13_NoReferenceNeverEmitted ==
    pc = "extracted" =>
        LET withRef == {p \in VisibleEntries(config) : ~LacksReference(config, p)}
        IN  /\ \A n \in 1..Len(files) :
                  Cardinality({m \in 1..Len(files) : EmittedFilePages(m) = EmittedFilePages(n)})
                    <= Cardinality({p \in withRef :
                                      ReferencePages(config, p) = EmittedFilePages(n)})
            /\ \A p \in VisibleEntries(config) \ withRef :
                  \A q \in VisibleRecords(config) :
                     LaterSibling(p, q) =>
                        \E n \in 1..Len(files) : EmittedFilePages(n) = FilePages(config, q)

\* a list whose first entry has no reference (a record without `file` and
\* `path`, and a plain string) and whose next entry was emitted
C13_Witness ==
    /\ pc = "extracted"
    /\ \E p \in VisibleEntries(config), q \in VisibleRecords(config) :
          /\ NodeAt(config, p).t = "map" /\ LacksReference(config, p)
          /\ LaterSibling(p, q)
          /\ \E n \in 1..Len(files) : EmittedFilePages(n) = FilePages(config, q)
    /\ \E p \in VisibleEntries(config) : NodeAt(config, p).t = "str"

\* C14: a record of a specs / test_plans / spec list that carries a `path` key
\* but no `file` key is emitted with the value of `path` as its reference.
C14_PathRecordEmitted ==
    pc = "extracted" =>
        \A p \in VisibleEntries(config) :
           (/\ NodeAt(config, p).t = "map"
            /\ HasKey(NodeAt(config, p), K_path)
            /\ ~HasKey(NodeAt(config, p), K_file))
           => \E n \in 1..Len(files) : EmittedFilePages(n) = ReferencePages(config, p)

\* the declared-pages component the record at p is to be emitted with
DeclaredPages(root, p) ==
    IF HasKey(NodeAt(root, p), K_pages) THEN Get(NodeAt(root, p), K_pages)
    ELSE StrV(S_unknown)

\* C15: the declared-pages component of an emitted triple is the string
\* "unknown" when the record has no `pages` key and the record's own value,
\* an explicit null included, when it has one: a record that omits the field
\* and a record whose field is null are emitted with different components.
C15_DeclaredPages ==
    pc = "extracted" =>
        /\ SameBag(VisibleRecords(config), EmittedFilePages,
                   LAMBDA p : [file |-> Get(NodeAt(config, p), K_file),
                               pages |-> DeclaredPages(config, p)])
        /\ \A n \in 1..Len(files) :
              /\ files[n].pages = NoneV =>
                    \E p \in VisibleRecords(config) :
                       /\ Get(NodeAt(config, p), K_file) = files[n].file
                       /\ HasKey(NodeAt(config, p), K_pages)
                       /\ Get(NodeAt(config, p), K_pages) = NoneV
              /\ files[n].pages = StrV(S_unknown) =>
                    \E p \in VisibleRecords(config) :
                       /\ Get(NodeAt(config, p), K_file) = files[n].file
                       /\ DeclaredPages(config, p) = StrV(S_unknown)

\* a record without `pages` and a record with a null `pages` were emitted
C15_Witness ==
    /\ pc = "extracted"
    /\ \E n, m \in 1..Len(files) :
          /\ files[n].pages = StrV(S_unknown)
          /\ files[m].pages = NoneV
    /\ \E p, q \in VisibleRecords(config) :
          /\ ~HasKey(NodeAt(config, p), K_pages)
          /\ HasKey(NodeAt(config, q), K_pages) /\ Get(NodeAt(config, q), K_pages) = NoneV

\* the position of a key in a mapping
KeyPos(node, key) == CHOOSE n \in 1..Len(node.items) : node.items[n].k = key

\* the first step at which two different positions part
FirstDiff(p, q) ==
    CHOOSE j \in 1..Len(p) : (j > Len(q) \/ p[j] # q[j]) /\ \A i \in 1..(j - 1) : p[i] = q[i]

\* p comes before q when the tree is read in its own key and element order
DocumentBefore(root, p, q) ==
    LET j == FirstDiff(p, q)
        node == NodeAt(root, SubSeq(p, 1, j - 1))
    IN  IF p[j].kind = "idx" THEN p[j].idx < q[j].idx
        ELSE KeyPos(node, p[j].key) < KeyPos(node, q[j].key)

\* the turn of a key of a mapping below the top level: the three list keys
\* first, then the other keys in the mapping's own order
KeyTurn(node, key) ==
    IF key = K_specs THEN 1
    ELSE IF key = K_test_plans THEN 2
    ELSE IF key = K_spec THEN 3
    ELSE 3 + KeyPos(node, key)

\* p comes before q in the walk: top-level keys in their own order, then at
\* every mapping specs, test_plans, spec and the other keys in their own
\* order, and the elements of a sequence in their own order
WalkerBefore(root, p, q) ==
    LET j == FirstDiff(p, q)
        node == NodeAt(root, SubSeq(p, 1, j - 1))
    IN  IF p[j].kind = "idx" THEN p[j].idx < q[j].idx
        ELSE IF j = 1 THEN KeyPos(node, p[j].key) < KeyPos(node, q[j].key)
        ELSE KeyTurn(node, p[j].key) < KeyTurn(node, q[j].key)

\* the triple of the record at p
TripleOf(root, p) ==
    [file |-> Get(NodeAt(root, p), K_file),
     pages |-> DeclaredPages(root, p),
     category |-> DotJoin(ListKeySecond(PathKeys(p)))]

\* the emitted triples are those of the visible records, in the order `before`
EmittedInOrder(before(_, _)) ==
    /\ Len(files) = Cardinality(VisibleRecords(config))
    /\ \A p \in VisibleRecords(config) :
          files[1 + Cardinality({q \in VisibleRecords(config) : q # p /\ before(q, p)})]
            = TripleOf(config, p)

----------------------------------------------------------------------------
(* fix_config: the normalized fields *)

\* a non-negative integer (a bool counts as the integer 0 or 1) or null
IsNormalPages(v) == v = NoneV \/ (v.t = "int" /\ v.i >= 0) \/ v.t = "bool"

\* process_document has been applied to a record with a `pages` key
PagesFixed == pc \in {"fixed", "refixed"} /\ HasKey(doc, K_pages)

\* C17: fix_pages_field returns a non-negative integer or null, never a
\* string and never a negative number, and after process_document every
\* record that had a `pages` key holds such a value.
C17_PagesNonNegativeOrNull ==
    PagesFixed =>
        /\ IsNormalPages(fix_pages_field(Get(doc, K_pages)))
        /\ IsNormalPages(Get(fixed, K_pages))

\* C18: normalizing `pages` is idempotent: fix_pages_field applied to its
\* own result returns that result, an integer or null is returned unchanged,
\* and a second process_document leaves the `pages` of a record as the first
\* one made it.
C18_PagesIdempotent ==
    PagesFixed =>
        LET v == Get(doc, K_pages)
        IN  /\ fix_pages_field(fix_pages_field(v)) = fix_pages_field(v)
            /\ v.t \in {"int", "none"} => fix_pages_field(v) = v
            /\ Get(fixed, K_pages) = fix_pages_field(v)
            /\ pc = "refixed" => Get(fixed, K_pages) = v

\* a record whose `pages` was the string " 37" has been processed: it holds
\* the integer 37, which normalizing again returns as it is
C18_Witness ==
    /\ pc = "fixed"
    /\ HasKey(doc, K_pages)
    /\ Get(doc, K_pages) = StrV(L_spaced_37)
    /\ Get(fixed, K_pages) = IntV(37)
    /\ fix_pages_field(Get(fixed, K_pages)) = IntV(37)

\* the value is not null and not the empty string
IsNonEmpty(v) == v # NoneV /\ v # StrV(S_empty)

\* C19: fix_version_field maps "", "n/a" and "N/A" to null and every other
\* non-empty value, the numbers 0 and 2.0 included, to its string form.
C19_VersionStringOrNull ==
    (pc = "fixed" /\ HasKey(doc, K_version)) =>
        LET v == Get(doc, K_version)
        IN  IF v \in {StrV(S_empty), StrV(S_na), StrV(S_NA)}
            THEN Get(fixed, K_version) = NoneV
            ELSE IsNonEmpty(v) => Get(fixed, K_version) = StrV(PyStr(v))

\* the file reference of a record, "" when it has none
FileOf(d) == GetOr(d, K_file, StrV(S_empty)).s

S_registration == SubSeq(S_requires_registration, 10, Len(S_requires_registration))

\* the `access` value as the claim words it
AccessAsClaimed(d) ==
    IF StartsWith(FileOf(d), S_http) THEN S_external
    ELSE IF Contains(Lower(FileOf(d)), S_registration) THEN S_requires_registration_access
    ELSE S_local

\* the `access` value by the rules in their order
AccessByRule(d) ==
    IF StartsWith(FileOf(d), S_Available) THEN S_external
    ELSE IF Contains(Lower(FileOf(d)), S_requires_registration)
    THEN S_requires_registration_access
    ELSE IF StartsWith(FileOf(d), S_http) THEN S_external
    ELSE S_local

\* C20 (as claimed): process_document sets `access` only when the record has
\* none, to `external` if the file reference is URL-like, to
\* `requires_registration` if it mentions registration, to `local` otherwise.
C20_AccessAsClaimed ==
    pc = "fixed" =>
        /\ HasKey(fixed, K_access)
        /\ HasKey(doc, K_access) => Get(fixed, K_access) = Get(doc, K_access)
        /\ ~HasKey(doc, K_access) => Get(fixed, K_access) = StrV(AccessAsClaimed(doc))

\* C20 (amended): process_document sets `access` only when the record has
\* none: to `external` if the file reference starts with "Available",
\* otherwise to `requires_registration` if its lower-cased form contains
\* "requires registration", otherwise to `external` if it starts with
\* "http", and to `local` otherwise, also for a record without a `file`.
C20_AccessByRule ==
    pc = "fixed" =>
        /\ HasKey(fixed, K_access)
        /\ HasKey(doc, K_access) => Get(fixed, K_access) = Get(doc, K_access)
        /\ ~HasKey(doc, K_access) => Get(fixed, K_access) = StrV(AccessByRule(doc))

\* a record with an `access` of its own and an "Available ..." reference was
\* processed and kept its value
C20_Witness ==
    /\ pc = "fixed"
    /\ HasKey(doc, K_access)
    /\ Get(fixed, K_access) = StrV(L_restricted)
    /\ StartsWith(FileOf(doc), S_Available)

----------------------------------------------------------------------------
(* Failures, the two validator implementations, and the frame of the       *)
(* reconciliation                                                          *)

\* C23: a failure raised after start-up, an I/O error while the configuration
\* is rewritten included, is caught at the entry point of the script and
\* turned into exit code 1: no run ends with the failure propagating
\* uncaught out of the entry point.
C23_FailuresCaught == pc = "done" => ~uncaught

\* the lists the validator of the other script returns for the same triples
\* and the same file system
OtherValidator ==
    IF script = "testplan_tools" THEN validate_files(fs, files)
    ELSE validate_config_files(fs, files)

\* C25: validate_config.validate_files and
\* testplan_tools.validate_config_files return the same missing_files,
\* invalid_files and page_mismatches for every list of triples and every
\* file system.
C25_ValidatorsAgree ==
    (pc = "done" /\ config # NoneV) =>
        /\ OtherValidator.missing_files = missing_files
        /\ OtherValidator.invalid_files = invalid_files
        /\ OtherValidator.page_mismatches = page_mismatches

\* the value of the `pages:` field on a line of the text
PagesFieldValue(line) == SubSeq(line, Len(T_pages_line) + 1, Len(line))

\* the lines of the text that hold a `pages:` field
PagesFieldLines(text) ==
    {n \in 1..Len(SplitLines(text)) : StartsWith(SplitLines(text)[n], T_pages_line)}

\* C26: after the reconciliation every `pages:` field of the text is either
\* unchanged, or its original value was exactly the declared value of some
\* mismatch and its new value is the actual count of that mismatch; a field
\* whose value only starts with a declared value is not altered.
C26_OnlyDeclaredFieldsChange ==
    (FixRan /\ writes = 1) =>
        /\ PagesFieldLines(config_file) = PagesFieldLines(loaded_text)
        /\ \A n \in PagesFieldLines(loaded_text) :
              LET before == PagesFieldValue(SplitLines(loaded_text)[n])
                  after == PagesFieldValue(SplitLines(config_file)[n])
              IN  \/ after = before
                  \/ \E k \in 1..Len(page_mismatches) :
                        /\ before = PyStr(page_mismatches[k].expected_pages)
                        /\ after = IntToStr(page_mismatches[k].actual_pages)

----------------------------------------------------------------------------
(* fix_config: the split of pcie_storage and the processed categories *)

\* fix_config has written a tree that had a pcie_storage category
SplitDone == pc = "written" /\ HasKey(config, K_pcie_storage)

\* the version entries of pcie_storage when it is split: those of the loaded
\* tree, processed by process_category
VersionsAtSplit ==
    LET cat == process_category(Get(config, K_pcie_storage))
    IN  IF HasKey(cat, K_versions) THEN Get(cat, K_versions).items ELSE <<>>

\* the version entries of a category of the written tree
VersionsOf(key) == Get(Get(config_fixed, key), K_versions).items

HasVersion(key, version_key) ==
    \E n \in 1..Len(VersionsOf(key)) : VersionsOf(key)[n].k = version_key

\* the new categories exist with their tags and pcie_storage is gone
NewCategoriesTagged ==
    /\ ~HasKey(config_fixed, K_pcie_storage)
    /\ HasKey(config_fixed, K_pcie) /\ HasKey(config_fixed, K_ufs)
    /\ Get(Get(config_fixed, K_pcie), K_category) = StrV(S_connectivity)
    /\ Get(Get(config_fixed, K_ufs), K_category) = StrV(S_storage)

\* C21 (as claimed): when pcie_storage is split, every version entry whose
\* key contains "Gen" or "PCIe" is under the new pcie category (tagged
\* connectivity) and every version entry whose key contains "UFS" is under
\* the new ufs category (tagged storage).
C21_SplitByKey ==
    SplitDone =>
        /\ NewCategoriesTagged
        /\ \A n \in 1..Len(VersionsAtSplit) :
              LET e == VersionsAtSplit[n]
              IN  /\ (Contains(e.k, S_Gen) \/ Contains(e.k, S_PCIe)) => HasVersion(K_pcie, e.k)
                  /\ Contains(e.k, S_UFS) => HasVersion(K_ufs, e.k)

\* C21 (amended): when pcie_storage is split, a version entry is under the
\* new pcie category (tagged connectivity) exactly when its key contains
\* "Gen" or "PCIe", and under the new ufs category (tagged storage) exactly
\* when its key contains "UFS" and neither "Gen" nor "PCIe".
C21_SplitFirstMatch ==
    SplitDone =>
        /\ NewCategoriesTagged
        /\ \A n \in 1..Len(VersionsAtSplit) :
              LET e == VersionsAtSplit[n]
                  pcie_key == Contains(e.k, S_Gen) \/ Contains(e.k, S_PCIe)
              IN  /\ HasVersion(K_pcie, e.k) <=> pcie_key
                  /\ HasVersion(K_ufs, e.k) <=> (~pcie_key /\ Contains(e.k, S_UFS))
                  /\ HasVersion(K_pcie, e.k) =>
                        Get(Get(Get(config_fixed, K_pcie), K_versions), e.k) = e.v
                  /\ HasVersion(K_ufs, e.k) =>
                        Get(Get(Get(config_fixed, K_ufs), K_versions), e.k) = e.v

\* the versions Gen5 and UFS3.1 were split: Gen5 is under pcie, UFS3.1 under ufs
C21_Witness ==
    /\ SplitDone
    /\ Len(VersionsAtSplit) = 2
    /\ HasVersion(K_pcie, V_Gen5) /\ ~HasVersion(K_ufs, V_Gen5)
    /\ HasVersion(K_ufs, V_UFS31) /\ ~HasVersion(K_pcie, V_UFS31)

\* C22: the split loses and duplicates nothing: every version entry of the
\* original category is, with unchanged content, in exactly one of
\* pcie.versions and ufs.versions, and these hold no other entries.
C22_SplitLosesNothing ==
    SplitDone =>
        /\ \A n \in 1..Len(VersionsAtSplit) :
              LET e == VersionsAtSplit[n]
              IN  /\ HasVersion(K_pcie, e.k) # HasVersion(K_ufs, e.k)
                  /\ \E key \in {K_pcie, K_ufs} :
                        \E m \in 1..Len(VersionsOf(key)) : VersionsOf(key)[m] = e
        /\ Len(VersionsOf(K_pcie)) + Len(VersionsOf(K_ufs)) = Len(VersionsAtSplit)

\* the records of a category of the written tree that the walker discovers
WalkerRecords(category) ==
    {p \in VisibleRecords(config_fixed) : p[1].key = category}

\* C27: after fix_config has processed a category, every record of it that
\* the walker discovers, at any nesting depth and in any of the specs,
\* test_plans and spec lists, is normalized: its `pages`, when present, is
\* an integer or null and it has an `access` field.
C27_WalkerRecordsNormalized ==
    (pc = "written" /\ HasKey(config, K_usb)) =>
        \A p \in WalkerRecords(K_usb) :
           LET record == NodeAt(config_fixed, p)
           IN  /\ HasKey(record, K_pages) => Get(record, K_pages).t \in {"int", "none"}
               /\ HasKey(record, K_access)

----------------------------------------------------------------------------
(* The device-mapping scripts *)

Devices == device_list(mappings, K_devices)

EntriesOf(device) == device_list(device, K_specs) \o device_list(device, K_test_plans)

\* the entry names a file, and the file is on disk
PathPresent(entry) ==
    /\ HasKey(entry, K_path)
    /\ Get(entry, K_path).t = "str"
    /\ Get(entry, K_path).s # <<>>
    /\ Get(entry, K_path).s \in DOMAIN fs
    /\ fs[Get(entry, K_path).s].exists

AllFilesPresent(device) ==
    \A n \in 1..Len(EntriesOf(device)) : PathPresent(EntriesOf(device)[n])

\* some entry of `issues` (missing_specs / missing_tests) is about an entry
\* of the device under `key`
ContributedMissing(device, key, issues) ==
    \E n \in 1..Len(issues), m \in 1..Len(device_list(device, key)) :
       /\ issues[n].device = GetOr(device, K_id, StrV(S_unknown))
       /\ HasKey(device_list(device, key)[m], K_path)
       /\ issues[n].path = Get(device_list(device, key)[m], K_path).s

\* some error message is about an entry of the device under `key`
ContributedError(device, key) ==
    /\ \E m \in 1..Len(device_list(device, key)) :
          ~Truthy(GetOr(device_list(device, key)[m], K_path, StrV(S_empty)))
    /\ \E n \in 1..Len(results.errors) :
          results.errors[n]
            = missing_path_error(GetOr(device, K_id, StrV(S_unknown)), key)

Contributed(device) ==
    \/ ContributedMissing(device, K_specs, results.missing_specs)
    \/ ContributedMissing(device, K_test_plans, results.missing_tests)
    \/ ContributedError(device, K_specs)
    \/ ContributedError(device, K_test_plans)

C24_OrphansOnly ==
    /\ pc = "validated"
    /\ Devices # <<>>
    /\ results.orphan_specs # <<>>
    /\ exit_code = 0

\* max(number of specs, number of test plans)
RowCount(device) ==
    IF Len(device_list(device, K_specs)) >= Len(device_list(device, K_test_plans))
    THEN Len(device_list(device, K_specs))
    ELSE Len(device_list(device, K_test_plans))

RECURSIVE RowsBefore(_)
\* the header and the rows of the devices before the d-th
RowsBefore(d) == IF d = 1 THEN 1 ELSE RowsBefore(d - 1) + RowCount(Devices[d - 1])

\* the i-th row of the d-th device, when every device has RowCount rows
RowOf(d, i) == devices_csv[RowsBefore(d) + i]

CellOr(list, i, key) ==
    IF i <= Len(list) THEN GetOr(list[i], key, StrV(S_empty)) ELSE StrV(S_empty)

\* the rows of the d-th device pair its i-th spec with its i-th test plan and
\* carry id, name and category on the first row only
RowsPaired(d) ==
    \A i \in 1..RowCount(Devices[d]) :
       /\ RowsBefore(d) + i <= Len(devices_csv)
       /\ RowOf(d, i) =
            <<IF i = 1 THEN GetOr(Devices[d], K_id, StrV(S_empty)) ELSE StrV(S_empty),
              IF i = 1 THEN GetOr(Devices[d], K_name, StrV(S_empty)) ELSE StrV(S_empty),
              IF i = 1 THEN GetOr(Devices[d], K_category, StrV(S_empty)) ELSE StrV(S_empty),
              CellOr(device_list(Devices[d], K_specs), i, K_standard),
              CellOr(device_list(Devices[d], K_specs), i, K_path),
              CellOr(device_list(Devices[d], K_test_plans), i, K_type),
              CellOr(device_list(Devices[d], K_test_plans), i, K_path)>>

\* the CSV is the header followed by max(specs, test plans) rows per device
CsvRowsAsBuilt ==
    pc = "reported" =>
        /\ Len(devices_csv) = RowsBefore(Len(Devices) + 1)
        /\ \A d \in 1..Len(Devices) : RowsPaired(d)

\* C28: every listed device is represented in the device coverage CSV: it
\* contributes at least one row, exactly max(number of specs, number of test
\* plans) rows pairing the i-th spec with the i-th test plan, and its id,
\* name and category are on the first of its rows only.
C28_EveryDeviceInCsv ==
    pc = "reported" =>
        /\ Len(devices_csv) = RowsBefore(Len(Devices) + 1)
        /\ \A d \in 1..Len(Devices) :
              /\ RowCount(Devices[d]) >= 1
              /\ RowsPaired(d)

====
